---- MODULE Spec2Model ----
(***************************************************************************)
(* Room hub of farmyard-fight-club (server/index.ts): the connection       *)
(* registry, the join / state / ping message handlers, the close handler   *)
(* and the room-scoped broadcast.  Every handler runs to completion, so     *)
(* each one is a single action.                                             *)
(*                                                                         *)
(* Game world of the client (src/game/Character.ts): the entity state      *)
(* machine of Character / Player / RemotePlayer, the frame loop of Game    *)
(* and the reconciliation of relayed snapshots into proxies.               *)
(*                                                                         *)
(* Sync client (src/game/MultiplayerClient.ts): the connection lifecycle   *)
(* of one client, its throttled state sends and its reconnection timer.    *)
(*                                                                         *)
(* Session: the hub and one shipped client together, the hub's messages    *)
(* to the client in flight between the two.                                *)
(***************************************************************************)
EXTENDS Integers, Sequences, FiniteSets, TLC

\* ------------------------------------------------------------------ bounds
MaxConns == 3          \* connections accepted over the hub's lifetime
MaxTimestamp == 2      \* snapshot / ping timestamps range over 1..MaxTimestamp
MaxEvents == 8         \* events the hub serves in one run
WorldSize == 6         \* the world is a ring of WorldSize positions (tenths)
ClipDuration == 2      \* length of every animation clip, in time units
MaxDelta == 2          \* a frame's deltaTime ranges over 1..MaxDelta
MaxCalls == 4          \* calls made on the character under MachineSpec
MaxFrames == 3         \* steps the game world takes under GameSpec
MaxRelays == 3         \* steps the game world takes under ReconcileSpec
MaxSteps == 6          \* steps the sync client takes under SyncSpec
MaxTicks == 4          \* the update clock ranges over 0..MaxTicks frames
MaxTrips == 5          \* steps taken under RoundTripSpec
MaxLosses == 2         \* connections the client loses under LossSpec
MaxSession == 9        \* steps the hub and the client take under SessionSpec

\* ---------------------------------------------------------------- state
VARIABLES
    clients,      \* the registry: id -> [id, snapshot, roomId, joined]
    readyState,   \* id -> readyState of that record's socket
    nextId,       \* identifiers handed out so far are 1..nextId-1
    sent,         \* what the last handler sent, in order: <<[to, msg], ...>>
    lastEvent,    \* the event the last handler served
    events,       \* how many events have been served
    characters,   \* the characters constructed and not destroyed, in order
    remotePlayers,     \* Game.remotePlayers: the ids that have a proxy
    updateCount,       \* Player.updateCount (static)
    jumpHeld,          \* Game.jumpHeld
    walkAudioPlaying,  \* Game.walkAudioPlaying
    playerState,       \* Game.controls.playerState
    playerId,          \* Game.playerId: string | null
    played,       \* the keys of audio.play in the last step, in order
    lastCall,     \* the operation the last step ran, with its arguments
    calls,        \* how many steps the world has taken
    multiplayer,  \* the fields of the MultiplayerClient
    sockets,      \* the WebSockets constructed so far, in order
    window,       \* the window's pending timeouts and its clock
    wire,         \* the state message travelling from client to client
    peer          \* the game world of a second client

vars == <<clients, readyState, nextId, sent, lastEvent, events>>

world == <<characters, remotePlayers, updateCount, jumpHeld, walkAudioPlaying,
           playerState, playerId, played, lastCall, calls>>

sync == <<multiplayer, sockets, window>>

trip == <<wire, peer>>

\* snapshot: PlayerSnapshot | null, held as a sequence of zero or one snapshot
Null == <<>>
Some(s) == <<s>>

DEFAULT_ROOM == <<"d">>

\* rooms are strings, held as sequences of characters
RoomNames == {DEFAULT_ROOM, <<"r">>}

\* the strings clients put in the room field: empty, blank, a room name,
\* a room name with blanks around it
RoomStrings ==
    {<<>>, <<" ">>} \cup RoomNames \cup {<<" ">> \o n \o <<" ", " ">> : n \in RoomNames \ {DEFAULT_ROOM}}

\* the room field of a join message: absent, null or a string
RoomArgs ==
    {[kind |-> "absent", value |-> <<>>], [kind |-> "null", value |-> <<>>]}
        \cup {[kind |-> "string", value |-> s] : s \in RoomStrings}

Timestamps == 1..MaxTimestamp
Ids == 1..MaxConns

\* the player field of a state message; its id is whatever the client claims:
\* the identifier the hub gave it, or the one the hub gave (or will give) another
PlayerSnapshot == [id : Ids, timestamp : Timestamps]

ClaimedBy(id) == {player \in PlayerSnapshot : player.id \in {id, (id % MaxConns) + 1}}

\* ------------------------------------------------------- String.trim()
RECURSIVE TrimStart(_)
TrimStart(s) == IF s # <<>> /\ Head(s) = " " THEN TrimStart(Tail(s)) ELSE s

RECURSIVE TrimEnd(_)
TrimEnd(s) ==
    IF s # <<>> /\ s[Len(s)] = " " THEN TrimEnd(SubSeq(s, 1, Len(s) - 1)) ELSE s

trim(s) == TrimEnd(TrimStart(s))

nextRoomOfNoTrim(room) ==
    IF room.kind = "string" /\ room.value # <<>> THEN room.value ELSE DEFAULT_ROOM

\* parsed.room?.trim() || DEFAULT_ROOM
nextRoomOf(room) ==
    IF room.kind = "string" /\ trim(room.value) # <<>>
    THEN trim(room.value)
    ELSE DEFAULT_ROOM

\* --------------------------------------------- Array.from(clients.values())
\* A Map iterates in insertion order; identifiers are handed out in
\* ascending order and inserted at once, so that is ascending id.
RECURSIVE ValuesFrom(_, _)
ValuesFrom(cl, i) ==
    IF i >= nextId THEN <<>>
    ELSE (IF i \in DOMAIN cl THEN <<cl[i]>> ELSE <<>>) \o ValuesFrom(cl, i + 1)

Values(cl) == ValuesFrom(cl, 1)

\* ------------------------------------------------------------ peersInRoom
\* (Array.prototype.filter is SelectSeq)
peersInRoomNoJoined(cl, rs, roomId, excludeId) ==
    LET Keep(client) ==
            /\ client.id # excludeId
            /\ client.roomId = roomId
            /\ rs[client.id] = "OPEN"
    IN  SelectSeq(Values(cl), Keep)

peersInRoomNoExclude(cl, rs, roomId, excludeId) ==
    LET Keep(client) ==
            /\ client.joined
            /\ client.roomId = roomId
            /\ rs[client.id] = "OPEN"
    IN  SelectSeq(Values(cl), Keep)

peersInRoomWithSnapshot(cl, rs, roomId, excludeId) ==
    LET Keep(client) ==
            /\ client.id # excludeId
            /\ client.snapshot # Null
            /\ client.roomId = roomId
            /\ rs[client.id] = "OPEN"
    IN  SelectSeq(Values(cl), Keep)

peersInRoomAnyState(cl, rs, roomId, excludeId) ==
    LET Keep(client) ==
            /\ client.id # excludeId
            /\ client.joined
            /\ client.roomId = roomId
    IN  SelectSeq(Values(cl), Keep)

peersInRoom(cl, rs, roomId, excludeId) ==
    LET Keep(client) ==
            /\ client.id # excludeId
            /\ client.joined
            /\ client.roomId = roomId
            /\ rs[client.id] = "OPEN"
    IN  SelectSeq(Values(cl), Keep)

\* ------------------------------------------- Array.prototype.sort (stable)
RECURSIVE InsertByTimestamp(_, _)
InsertByTimestamp(sorted, s) ==
    IF sorted = <<>> THEN <<s>>
    ELSE IF Head(sorted).timestamp - s.timestamp > 0
         THEN <<s>> \o sorted
         ELSE <<Head(sorted)>> \o InsertByTimestamp(Tail(sorted), s)

RECURSIVE SortByTimestampFrom(_, _)
SortByTimestampFrom(done, rest) ==
    IF rest = <<>> THEN done
    ELSE SortByTimestampFrom(InsertByTimestamp(done, Head(rest)), Tail(rest))

sortNone(seq) == seq

sort(seq) == SortByTimestampFrom(<<>>, seq)

RECURSIVE MapSnapshot(_)
MapSnapshot(seq) ==
    IF seq = <<>> THEN <<>> ELSE <<Head(seq).snapshot[1]>> \o MapSnapshot(Tail(seq))

\* ---------------------------------------------------------- playersInRoom
playersInRoom(cl, roomId, excludeId) ==
    LET Keep(client) ==
            /\ client.joined
            /\ client.snapshot # Null
            /\ client.roomId = roomId
            /\ client.id # excludeId
    IN  sort(MapSnapshot(SelectSeq(Values(cl), Keep)))

\* -------------------------------------------------------------- broadcast
RECURSIVE SendEach(_, _)
SendEach(peers, message) ==
    IF peers = <<>> THEN <<>>
    ELSE <<[to |-> Head(peers).id, msg |-> message]>> \o SendEach(Tail(peers), message)

broadcast(cl, rs, message, roomId, excludeId) ==
    SendEach(peersInRoom(cl, rs, roomId, excludeId), message)

\* socket.send(payload) on one socket: nothing is delivered unless it is OPEN
send(rs, id, message) ==
    IF rs[id] = "OPEN" THEN <<[to |-> id, msg |-> message]>> ELSE <<>>

\* ------------------------------------------------------------------ Init
\* new MultiplayerClient(game): no socket, no identifier, no timer
MultiplayerClient ==
    [socket |-> Null, playerId |-> Null, lastSentAt |-> 0,
     reconnectTimer |-> Null, suppressReconnect |-> FALSE]

\* a client that has not asked to connect
NoSync ==
    /\ multiplayer = MultiplayerClient
    /\ sockets = <<>>
    /\ window = [timers |-> {}, nextTimer |-> 1, now |-> 0]

\* no message travels and no second client runs
NoTrip ==
    /\ wire = Null
    /\ peer = [characters |-> <<>>, remotePlayers |-> {}, playerId |-> Null]

\* no game world is constructed in the hub's process
NoWorld ==
    /\ characters = <<>>
    /\ remotePlayers = {}
    /\ updateCount = 0
    /\ jumpHeld = FALSE
    /\ walkAudioPlaying = FALSE
    /\ playerState = ""
    /\ playerId = <<>>
    /\ played = <<>>
    /\ lastCall = [op |-> "none"]
    /\ calls = 0

Init ==
    /\ clients = <<>>
    /\ readyState = <<>>
    /\ nextId = 1
    /\ sent = <<>>
    /\ lastEvent = [type |-> "none", conn |-> 0]
    /\ events = 0
    /\ NoWorld
    /\ NoSync
    /\ NoTrip

\* ------------------------------------------------- wss.on('connection')
randomUUID == nextId

OnConnection ==
    /\ nextId <= MaxConns
    /\ LET id == randomUUID
           record == [id |-> id, snapshot |-> Null, roomId |-> DEFAULT_ROOM, joined |-> FALSE]
       IN  /\ clients' = (id :> record) @@ clients
           /\ readyState' = (id :> "OPEN") @@ readyState
           /\ lastEvent' = [type |-> "connection", conn |-> id]
    /\ nextId' = nextId + 1
    /\ sent' = <<>>

\* ------------------------------------------ socket.on('message'): join
leaveOnSwitchNever(record, nextRoom) == FALSE

leaveOnSwitch(record, nextRoom) == record.roomId # nextRoom /\ record.snapshot # Null

keepOnSwitch(record, switch) == record.snapshot

clearOnSwitchOutOfDefault(record, switch) ==
    IF switch /\ record.roomId = DEFAULT_ROOM THEN Null ELSE record.snapshot

clearOnSwitch(record, switch) == IF switch THEN Null ELSE record.snapshot

OnJoin(id, room) ==
    LET record == clients[id]
        nextRoom == nextRoomOf(room)
        previousRoom == record.roomId
        switch == leaveOnSwitch(record, nextRoom)
        leaves ==
            IF switch
            THEN broadcast(clients, readyState, [type |-> "player-leave", id |-> id],
                           previousRoom, id)
            ELSE <<>>
        joinedRecord ==
            [record EXCEPT !.snapshot = clearOnSwitch(record, switch),
                           !.roomId = nextRoom,
                           !.joined = TRUE]
        after == [clients EXCEPT ![id] = joinedRecord]
        otherPlayers == playersInRoom(after, nextRoom, id)
        initMessage ==
            [type |-> "init", id |-> id, roomId |-> nextRoom, players |-> otherPlayers]
    IN  /\ clients' = after
        /\ sent' = leaves \o send(readyState, id, initMessage)
        /\ lastEvent' = [type |-> "join", conn |-> id, room |-> room]
        /\ UNCHANGED <<readyState, nextId>>

\* ----------------------------------------- socket.on('message'): state
stampKeepId(player, id) == player

stamp(player, id) == [player EXCEPT !.id = id]

acceptsStateAlways(record) == TRUE

acceptsState(record) == record.joined

OnState(id, player) ==
    LET record == clients[id]
        snapshot == stamp(player, id)
        after == [clients EXCEPT ![id].snapshot = Some(snapshot)]
    IN  /\ IF acceptsState(record)
           THEN /\ clients' = after
                /\ sent' = broadcast(after, readyState,
                                     [type |-> "player-update", player |-> snapshot],
                                     record.roomId, id)
           ELSE /\ clients' = clients
                /\ sent' = <<>>
        /\ lastEvent' = [type |-> "state", conn |-> id, player |-> player]
        /\ UNCHANGED <<readyState, nextId>>

\* ------------------------------------------ socket.on('message'): ping
pongServerTime(timestamp) == [type |-> "pong", timestamp |-> events]

pong(timestamp) == [type |-> "pong", timestamp |-> timestamp]

OnPing(id, timestamp) ==
    /\ sent' = send(readyState, id, pong(timestamp))
    /\ lastEvent' = [type |-> "ping", conn |-> id, timestamp |-> timestamp]
    /\ UNCHANGED <<clients, readyState, nextId>>

\* ------------- socket.on('message'): unknown type, or JSON.parse throws
OnDroppedReplying(id, why) ==
    /\ sent' = send(readyState, id, [type |-> "error", reason |-> why])
    /\ lastEvent' = [type |-> why, conn |-> id]
    /\ UNCHANGED <<clients, readyState, nextId>>

OnDropped(id, why) ==
    /\ sent' = <<>>
    /\ lastEvent' = [type |-> why, conn |-> id]
    /\ UNCHANGED <<clients, readyState, nextId>>

OnMessage(id) ==
    \/ \E room \in RoomArgs : OnJoin(id, room)
    \/ \E player \in ClaimedBy(id) : OnState(id, player)
    \/ \E timestamp \in Timestamps : OnPing(id, timestamp)
    \/ \E why \in {"unknown", "malformed"} : OnDropped(id, why)

\* ---- the socket leaves OPEN (close handshake begun, or the link dropped)
\* before the hub is told; queued messages may still be handed over
SocketClosing(id) ==
    /\ readyState[id] = "OPEN"
    /\ readyState' = [readyState EXCEPT ![id] = "CLOSING"]
    /\ sent' = <<>>
    /\ lastEvent' = [type |-> "closing", conn |-> id]
    /\ UNCHANGED <<clients, nextId>>

\* ----------------------------------------------------- socket.on('close')
Without(f, id) == [k \in DOMAIN f \ {id} |-> f[k]]

leaveOnCloseAlways(record) == TRUE

leaveOnClose(record) == record.joined

OnClose(id) ==
    LET record == clients[id]
        after == Without(clients, id)
        rsAfter == Without(readyState, id)
    IN  /\ clients' = after
        /\ readyState' = rsAfter
        /\ sent' = IF leaveOnClose(record)
                   THEN broadcast(after, rsAfter, [type |-> "player-leave", id |-> id],
                                  record.roomId, id)
                   ELSE <<>>
        /\ lastEvent' = [type |-> "close", conn |-> id, record |-> record]
        /\ UNCHANGED nextId

Serve(event) ==
    /\ events < MaxEvents
    /\ events' = events + 1
    /\ event
    /\ UNCHANGED <<world, sync, trip>>

Next ==
    \/ Serve(OnConnection)
    \/ \E id \in DOMAIN clients : Serve(OnMessage(id))
    \/ \E id \in DOMAIN clients : Serve(SocketClosing(id))
    \/ \E id \in DOMAIN clients : Serve(OnClose(id))

Spec == Init /\ [][Next]_vars

\* ============================================ the hub when a send raises
\* broadcast (index.ts 68-73) calls client.socket.send in a plain for loop:
\* an error raised by one peer's send leaves the loop, so the peers after it
\* in iteration order are not reached. thrower is the peer whose send raises
\* in this event (0: none does).
Throwers(cl, rs, roomId, excludeId) ==
    {0} \cup {peersInRoom(cl, rs, roomId, excludeId)[i].id :
                  i \in 1..Len(peersInRoom(cl, rs, roomId, excludeId))}

Before(peers, thrower) ==
    LET at == {i \in 1..Len(peers) : peers[i].id = thrower}
    IN  IF at = {} THEN peers ELSE SubSeq(peers, 1, (CHOOSE i \in at : TRUE) - 1)

broadcastUntil(cl, rs, message, roomId, excludeId, thrower) ==
    SendEach(Before(peersInRoom(cl, rs, roomId, excludeId), thrower), message)

\* join: the error leaves the case before lines 93-102 run and is caught at
\* line 124, so the record keeps its room and snapshot and no init is sent
OnJoinFaulty(id, room, thrower) ==
    LET record == clients[id]
        nextRoom == nextRoomOf(room)
        previousRoom == record.roomId
        switch == leaveOnSwitch(record, nextRoom)
        joinedRecord ==
            [record EXCEPT !.snapshot = clearOnSwitch(record, switch),
                           !.roomId = nextRoom,
                           !.joined = TRUE]
        after == [clients EXCEPT ![id] = joinedRecord]
        initMessage ==
            [type |-> "init", id |-> id, roomId |-> nextRoom,
             players |-> playersInRoom(after, nextRoom, id)]
    IN  /\ thrower \in IF switch
                       THEN Throwers(clients, readyState, previousRoom, id)
                       ELSE {0}
        /\ IF thrower # 0
           THEN /\ clients' = clients
                /\ sent' = broadcastUntil(clients, readyState,
                                          [type |-> "player-leave", id |-> id],
                                          previousRoom, id, thrower)
           ELSE /\ clients' = after
                /\ sent' = (IF switch
                            THEN broadcast(clients, readyState,
                                           [type |-> "player-leave", id |-> id],
                                           previousRoom, id)
                            ELSE <<>>) \o send(readyState, id, initMessage)
        /\ lastEvent' = [type |-> "join", conn |-> id, room |-> room,
                         thrower |-> thrower]
        /\ UNCHANGED <<readyState, nextId>>

\* state: the snapshot is stored at line 112 before the loop starts; the
\* error is caught at line 124
OnStateFaulty(id, player, thrower) ==
    LET record == clients[id]
        snapshot == stamp(player, id)
        after == [clients EXCEPT ![id].snapshot = Some(snapshot)]
    IN  /\ thrower \in IF acceptsState(record)
                       THEN Throwers(after, readyState, record.roomId, id)
                       ELSE {0}
        /\ IF acceptsState(record)
           THEN /\ clients' = after
                /\ sent' = broadcastUntil(after, readyState,
                                          [type |-> "player-update", player |-> snapshot],
                                          record.roomId, id, thrower)
           ELSE /\ clients' = clients
                /\ sent' = <<>>
        /\ lastEvent' = [type |-> "state", conn |-> id, player |-> player,
                         thrower |-> thrower]
        /\ UNCHANGED <<readyState, nextId>>

\* close: the record is deleted at line 131 before the loop starts; the
\* handler has no try/catch, the error leaves it uncaught
OnCloseFaulty(id, thrower) ==
    LET record == clients[id]
        after == Without(clients, id)
        rsAfter == Without(readyState, id)
    IN  /\ thrower \in IF leaveOnClose(record)
                       THEN Throwers(after, rsAfter, record.roomId, id)
                       ELSE {0}
        /\ clients' = after
        /\ readyState' = rsAfter
        /\ sent' = IF leaveOnClose(record)
                   THEN broadcastUntil(after, rsAfter,
                                       [type |-> "player-leave", id |-> id],
                                       record.roomId, id, thrower)
                   ELSE <<>>
        /\ lastEvent' = [type |-> "close", conn |-> id, record |-> record,
                         thrower |-> thrower]
        /\ UNCHANGED nextId

\* an error that leaves a handler uncaught ends the process
Running == ~(lastEvent.type = "close" /\ lastEvent.thrower # 0)

FaultRooms == {[kind |-> "absent", value |-> <<>>], [kind |-> "string", value |-> <<"r">>]}

SendFaultNext ==
    \/ Running /\ Serve(OnConnection)
    \/ \E id \in DOMAIN clients, room \in FaultRooms, thrower \in 0..MaxConns :
           Running /\ Serve(OnJoinFaulty(id, room, thrower))
    \/ \E id \in DOMAIN clients, thrower \in 0..MaxConns :
           Running /\ Serve(OnStateFaulty(id, [id |-> id, timestamp |-> 1], thrower))
    \/ \E id \in DOMAIN clients, thrower \in 0..MaxConns :
           Running /\ Serve(OnCloseFaulty(id, thrower))

SendFaultSpec == Init /\ [][SendFaultNext]_vars

\* ========================================================= the game world
\* no hub runs in the client's process
NoHub ==
    /\ clients = <<>>
    /\ readyState = <<>>
    /\ nextId = 1
    /\ sent = <<>>
    /\ lastEvent = [type |-> "none", conn |-> 0]
    /\ events = 0

\* Game.controls.walkSpeed, in tenths of a world unit per frame
walkSpeed == 3

\* the extent of every model's bounding box along the ring
boundingBox == 1

\* the models Game.models holds; every model brings the clips below
ModelNames == {"cow", "pug"}

animations(modelName) == {"idle", "walk", "jump", "death"}

\* state labels callers and snapshots ask for: "moo" is no model's clip
Labels == {"idle", "walk", "jump", "death", "moo"}

Deltas == 1..MaxDelta

\* value ?? fallback
OrElse(value, fallback) == IF value = Null THEN fallback ELSE value[1]

\* AnimationOptions = {}
NoOptions == [walkSpeed |-> Null, timeScale |-> Null, force |-> FALSE]

\* ----------------------------------------------- Character.changeAnimation
\* the clip becomes the active one, is reset to its start and played at the
\* requested time scale
changeAnimation(c, name, options) ==
    [c EXCEPT !.clip = name,
              !.timeScale = OrElse(options.timeScale, 1),
              !.time = 0,
              !.paused = FALSE]

\* -------------------------------------------------- Character.changeState
sameStateIgnoringForce(c, state, options) == state = c.action

sameState(c, state, options) == state = c.action /\ ~options.force

rejectKeepingLabel(c, state) == [c EXCEPT !.lastAction = c.action, !.action = state]

\* changeAnimation returned false: action is put back from lastAction
reject(c, state) == [c EXCEPT !.lastAction = c.action]

speedForWithoutFactor(c, state, options) ==
    CASE state = "walk" -> walkSpeed
      [] state \in {"idle", "death"} -> 0
      [] OTHER -> c.speed

speedFor(c, state, options) ==
    CASE state = "walk" -> walkSpeed * OrElse(options.walkSpeed, 1)
      [] state \in {"idle", "death"} -> 0
      [] OTHER -> c.speed

accepted(c, state, options) ==
    ~sameState(c, state, options) /\ state \in animations(c.modelName)

changeState(c, state, options) ==
    IF sameState(c, state, options) THEN c
    ELSE IF state \notin animations(c.modelName) THEN reject(c, state)
    ELSE [changeAnimation([c EXCEPT !.lastAction = c.action, !.action = state],
                          state, options)
            EXCEPT !.speed = speedFor(c, state, options)]

\* Game.controls.playerState follows the local player's accepted transitions
playerStateAfter(label, c, state, options) ==
    IF c.kind = "player" /\ accepted(c, state, options) THEN state ELSE label

\* ------------------------------------------------- Character.constructor
Character(kind, name, modelName, position) ==
    changeState([name |-> name, kind |-> kind, modelName |-> modelName,
                 action |-> "", lastAction |-> "", speed |-> 0,
                 clip |-> "", time |-> 0, timeScale |-> 1, paused |-> FALSE,
                 position |-> position, rotation |-> 0, matrixWorld |-> 0,
                 boxRed |-> FALSE, wireframe |-> FALSE, lastTimestamp |-> 0],
                "idle", NoOptions)

\* ---------------------------------------- Character.handleAnimationFinished
handleAnimationFinishedOnce(c, name) == [c EXCEPT !.wireframe = TRUE]

handleAnimationFinished(c, name) ==
    IF name = "death"
    THEN changeState([c EXCEPT !.wireframe = TRUE], "walk", NoOptions)
    ELSE c

\* ------------------------------------------------ animation.mixer.update
\* the death clip plays once and is clamped at its end, where the mixer
\* reports it finished; every other clip loops
mixerUpdate(c, deltaTime) ==
    LET t == c.time + deltaTime * c.timeScale
    IN  IF c.clip = "" \/ c.paused THEN c
        ELSE IF c.clip # "death" THEN [c EXCEPT !.time = t % ClipDuration]
        ELSE IF t >= ClipDuration
             THEN handleAnimationFinished(
                      [c EXCEPT !.time = ClipDuration, !.paused = TRUE], c.clip)
        ELSE IF t < 0
             THEN handleAnimationFinished(
                      [c EXCEPT !.time = 0, !.paused = TRUE], c.clip)
        ELSE [c EXCEPT !.time = t]

\* ------------------------------------------------------- Character.update
\* getWorldDirection refreshes the object's world matrix before the move
getWorldDirection(c) == IF c.rotation = 0 THEN 1 ELSE -1

update(c, deltaTime) ==
    mixerUpdate([c EXCEPT !.matrixWorld = c.position,
                          !.position = (c.position + getWorldDirection(c) * c.speed)
                                           % WorldSize],
                deltaTime)

\* ---------------------------------------------------- RemotePlayer.update
remoteUpdate(c, deltaTime) == mixerUpdate(c, deltaTime)

\* ----------------------------------------------- Character.collisionDetect
Apart(a, b) ==
    IF (a - b) % WorldSize <= (b - a) % WorldSize
    THEN (a - b) % WorldSize
    ELSE (b - a) % WorldSize

collisionDetect(player, other) ==
    Apart(player.matrixWorld, other.matrixWorld) <= boundingBox

\* ---------------------------------------------------------- Player.update
scans(count) == count > 0

hitsAnyKind(player, c) == c.name # player.name /\ c.action # "death"

hits(player, c) ==
    c.name # player.name /\ c.kind = "npc" /\ c.action # "death"

\* what the scan does to one character of the registry
scanned(player, c) ==
    IF hits(player, c) /\ collisionDetect(player, c)
    THEN changeState([c EXCEPT !.boxRed = TRUE], "death", NoOptions)
    ELSE c

\* the audio keys the scan plays, in registry order
RECURSIVE scanAudio(_, _, _)
scanAudio(player, chs, i) ==
    IF i > Len(chs) THEN <<>>
    ELSE (IF hits(player, chs[i]) /\ collisionDetect(player, chs[i])
          THEN <<chs[i].modelName>>
          ELSE <<>>) \o scanAudio(player, chs, i + 1)

\* Player.update on the registry: the characters after it, the audio keys
\* it played, the names of the characters its scan sent to death
playerUpdate(chs, count, deltaTime) ==
    LET moved == [i \in DOMAIN chs |->
                      IF chs[i].kind = "player" THEN update(chs[i], deltaTime)
                      ELSE chs[i]]
        at == {i \in DOMAIN moved : moved[i].kind = "player"}
        player == moved[CHOOSE i \in at : TRUE]
    IN  IF at # {} /\ scans(count)
        THEN [characters |-> [i \in DOMAIN moved |-> scanned(player, moved[i])],
              played |-> scanAudio(player, moved, 1),
              struck |-> {moved[i].name : i \in {j \in DOMAIN moved :
                              /\ hits(player, moved[j])
                              /\ collisionDetect(player, moved[j])
                              /\ accepted(moved[j], "death", NoOptions)}}]
        ELSE [characters |-> moved, played |-> <<>>, struck |-> {}]

\* Player.updateCount is only ever compared with 0: it is held up to 1
counted(count) == IF count < 1 THEN count + 1 ELSE count

\* ------------------------------------- the state machine of one character
\* the options callers pass: each field absent or given
Options ==
    [walkSpeed : {Null, Some(-1), Some(0)},
     timeScale : {Null, Some(-1)},
     force : BOOLEAN]

MachineInit ==
    /\ NoHub
    /\ NoSync
    /\ NoTrip
    /\ \E kind \in {"player", "npc", "remote"}, modelName \in ModelNames :
           characters = <<Character(kind, <<kind, 0>>, modelName, 0)>>
    /\ remotePlayers = {}
    /\ updateCount = 0
    /\ jumpHeld = FALSE
    /\ walkAudioPlaying = FALSE
    /\ playerState = ""
    /\ playerId = Null
    /\ played = <<>>
    /\ lastCall = [op |-> "none"]
    /\ calls = 0

\* a caller invokes the public changeState on the character
CallChangeState(state, options) ==
    /\ characters' = <<changeState(characters[1], state, options)>>
    /\ playerState' = playerStateAfter(playerState, characters[1], state, options)
    /\ played' = <<>>
    /\ lastCall' = [op |-> "changeState", state |-> state, options |-> options]
    /\ UNCHANGED <<remotePlayers, updateCount, jumpHeld, walkAudioPlaying, playerId>>

\* the frame loop invokes the character's update
CallUpdate(deltaTime) ==
    /\ IF characters[1].kind = "player"
       THEN /\ characters' = playerUpdate(characters, updateCount, deltaTime).characters
            /\ played' = playerUpdate(characters, updateCount, deltaTime).played
            /\ updateCount' = counted(updateCount)
       ELSE /\ characters' = <<IF characters[1].kind = "remote"
                               THEN remoteUpdate(characters[1], deltaTime)
                               ELSE update(characters[1], deltaTime)>>
            /\ played' = <<>>
            /\ UNCHANGED updateCount
    /\ lastCall' = [op |-> "update", deltaTime |-> deltaTime]
    /\ UNCHANGED <<remotePlayers, jumpHeld, walkAudioPlaying, playerState, playerId>>

Call(step) ==
    /\ calls < MaxCalls
    /\ calls' = calls + 1
    /\ step
    /\ UNCHANGED <<vars, sync, trip>>

MachineNext ==
    \/ \E state \in Labels, options \in Options : Call(CallChangeState(state, options))
    \/ \E deltaTime \in Deltas : Call(CallUpdate(deltaTime))

MachineSpec == MachineInit /\ [][MachineNext]_world

\* ------------------------------------------------------- Game.applyInput
\* what the input layer reads in a frame: a half turn or none, the forward
\* axis, the jump button
Inputs == [look : BOOLEAN, move : {-1, 0, 1}, jump : BOOLEAN]

\* the local player is the first character constructed
applyInput(player, held, walking, label, input) ==
    LET turned == IF input.look
                  THEN [player EXCEPT !.rotation = 1 - player.rotation]
                  ELSE player
        pressed == input.jump /\ ~held
        released == ~input.jump /\ held
        jumpOptions == [NoOptions EXCEPT !.force = TRUE]
        jumped == IF pressed THEN changeState(turned, "jump", jumpOptions) ELSE turned
        label1 == IF pressed
                  THEN playerStateAfter(label, turned, "jump", jumpOptions)
                  ELSE label
        held1 == IF pressed THEN TRUE ELSE IF released THEN FALSE ELSE held
        walking1 == IF released THEN FALSE ELSE walking
        audio1 == IF pressed THEN <<"walk">> ELSE <<>>
        \* timeScale = direction * Math.max(0.5, magnitude), forward in {-1, 1}
        walkOptions == [walkSpeed |-> Some(input.move),
                        timeScale |-> Some(input.move),
                        force |-> TRUE]
    IN  IF held1
        THEN [player |-> jumped, jumpHeld |-> held1, walkAudioPlaying |-> walking1,
              playerState |-> label1, played |-> audio1]
        ELSE IF input.move # 0
        THEN [player |-> changeState(jumped, "walk", walkOptions),
              jumpHeld |-> held1, walkAudioPlaying |-> TRUE,
              playerState |-> playerStateAfter(label1, jumped, "walk", walkOptions),
              played |-> audio1 \o (IF walking1 THEN <<>> ELSE <<"walk">>)]
        ELSE [player |-> IF jumped.action # "idle"
                         THEN changeState(jumped, "idle", NoOptions)
                         ELSE jumped,
              jumpHeld |-> held1, walkAudioPlaying |-> FALSE,
              playerState |-> IF jumped.action # "idle"
                              THEN playerStateAfter(label1, jumped, "idle", NoOptions)
                              ELSE label1,
              played |-> audio1]

\* renderer.render brings every object's world matrix up to date
render(chs) == [i \in DOMAIN chs |-> [chs[i] EXCEPT !.matrixWorld = chs[i].position]]

\* ---------------------------------------------------------- Game.animate
\* the characters other than the local player are updated after it
othersUpdate(chs, deltaTime) ==
    [i \in DOMAIN chs |->
         CASE chs[i].kind = "player" -> chs[i]
           [] chs[i].kind = "remote" -> remoteUpdate(chs[i], deltaTime)
           [] OTHER -> update(chs[i], deltaTime)]

\* multiplayer.update sends the local snapshot and changes nothing here
Animate(input, deltaTime) ==
    \E a \in {applyInput(characters[1], jumpHeld, walkAudioPlaying, playerState, input)} :
    \E p \in {playerUpdate([characters EXCEPT ![1] = a.player], updateCount, deltaTime)} :
        /\ characters' = render(othersUpdate(p.characters, deltaTime))
        /\ updateCount' = counted(updateCount)
        /\ jumpHeld' = a.jumpHeld
        /\ walkAudioPlaying' = a.walkAudioPlaying
        /\ playerState' = a.playerState
        /\ played' = a.played \o p.played
        /\ lastCall' = [op |-> "animate", struck |-> p.struck,
                        deltaTime |-> deltaTime]
        /\ UNCHANGED <<remotePlayers, playerId>>

\* ------------------------------------------------ Game.setLocalPlayerId
RemoteIds == {1, 2}

\* the fields of a Game that reconciliation reads and writes
theGame ==
    [characters |-> characters, remotePlayers |-> remotePlayers, playerId |-> playerId]

setLocalPlayerId(g, id) == [g EXCEPT !.playerId = Some(id)]

SetLocalPlayerId(id) ==
    /\ playerId' = setLocalPlayerId(theGame, id).playerId
    /\ played' = <<>>
    /\ lastCall' = [op |-> "setLocalPlayerId", id |-> id]
    /\ UNCHANGED <<characters, remotePlayers, updateCount, jumpHeld,
                   walkAudioPlaying, playerState>>

\* ------------------------------------------- RemotePlayer.applySnapshot
\* the snapshots the hub relays: the label, the model key and the pose are
\* whatever the sending client put there
Snapshots ==
    [id : RemoteIds, position : {0, 2}, rotation : {1},
     state : {"walk", "death"}, timeScale : {1}, walkSpeed : {1},
     model : {"pug", "yak"}, timestamp : {1, 2}]
    \cup [id : {1}, position : {2}, rotation : {1},
          state : {"walk"}, timeScale : {1, -1}, walkSpeed : {1, -1},
          model : {"pug"}, timestamp : {2}]

\* the snapshots of one remote player standing where the local player starts
NearSnapshots == {snapshot \in Snapshots :
                      /\ snapshot.id = 1 /\ snapshot.position = 0
                      /\ snapshot.timeScale = 1 /\ snapshot.walkSpeed = 1
                      /\ snapshot.model = "pug" /\ snapshot.timestamp = 1}

applySnapshotKeepingPose(c, snapshot) ==
    changeState([c EXCEPT !.lastTimestamp = snapshot.timestamp],
                snapshot.state,
                [walkSpeed |-> Some(snapshot.walkSpeed),
                 timeScale |-> Some(snapshot.timeScale),
                 force |-> snapshot.state = c.action])

applySnapshotUnforced(c, snapshot) ==
    changeState([c EXCEPT !.lastTimestamp = snapshot.timestamp,
                          !.position = snapshot.position,
                          !.rotation = snapshot.rotation],
                snapshot.state,
                [walkSpeed |-> Some(snapshot.walkSpeed),
                 timeScale |-> Some(snapshot.timeScale),
                 force |-> FALSE])

applySnapshot(c, snapshot) ==
    changeState([c EXCEPT !.lastTimestamp = snapshot.timestamp,
                          !.position = snapshot.position,
                          !.rotation = snapshot.rotation],
                snapshot.state,
                [walkSpeed |-> Some(snapshot.walkSpeed),
                 timeScale |-> Some(snapshot.timeScale),
                 force |-> snapshot.state = c.action])

\* ------------------------------------------- Game.applyRemoteSnapshot
isLocalNever(id, snapshot) == FALSE

isLocal(id, snapshot) == Some(snapshot.id) = id

modelFor(key) == IF key \in ModelNames THEN key ELSE "cow"

creates(ids, snapshot) == snapshot.id \notin ids

applyRemoteSnapshot(g, snapshot) ==
    LET name == <<"remote", snapshot.id>>
        present == IF creates(g.remotePlayers, snapshot)
                   THEN Append(g.characters,
                               Character("remote", name, modelFor(snapshot.model),
                                         snapshot.position))
                   ELSE g.characters
        at == CHOOSE i \in DOMAIN present : present[i].name = name
    IN  IF isLocal(g.playerId, snapshot) THEN g
        ELSE [g EXCEPT !.characters =
                           [present EXCEPT ![at] = applySnapshot(present[at], snapshot)],
                       !.remotePlayers = g.remotePlayers \cup {snapshot.id}]

ApplyRemoteSnapshot(snapshot) ==
    \E g \in {applyRemoteSnapshot(theGame, snapshot)} :
        /\ characters' = g.characters
        /\ remotePlayers' = g.remotePlayers
        /\ played' = <<>>
        /\ lastCall' = [op |-> "applyRemoteSnapshot", snapshot |-> snapshot]
        /\ UNCHANGED <<updateCount, jumpHeld, walkAudioPlaying, playerState, playerId>>

\* ---------------------------------------------- Game.removeRemotePlayer
\* destroy takes the proxy out of the registry, delete out of the map
removeRemotePlayerKeepingEntity(g, id) ==
    [g EXCEPT !.remotePlayers = g.remotePlayers \ {id}]

removeRemotePlayer(g, id) ==
    IF id \notin g.remotePlayers THEN g
    ELSE [g EXCEPT !.characters =
                       SelectSeq(g.characters, LAMBDA c : c.name # <<"remote", id>>),
                   !.remotePlayers = g.remotePlayers \ {id}]

RemoveRemotePlayer(id) ==
    \E g \in {removeRemotePlayer(theGame, id)} :
        /\ characters' = g.characters
        /\ remotePlayers' = g.remotePlayers
        /\ played' = <<>>
        /\ lastCall' = [op |-> "removeRemotePlayer", id |-> id]
        /\ UNCHANGED <<updateCount, jumpHeld, walkAudioPlaying, playerState, playerId>>

\* ----------------------------------------------- Game.clearRemotePlayers
clearRemotePlayers(g) ==
    [g EXCEPT !.characters =
                  SelectSeq(g.characters,
                            LAMBDA c : c.name \notin {<<"remote", id>> : id \in g.remotePlayers}),
              !.remotePlayers = {}]

\* ------------------------------------------------- Game.initCharacters
\* the local player is a cow at the origin; the other characters are spawned
\* with models and at positions drawn at random: here a cow and a pug, each
\* next to the player or out of its reach
Herds ==
    {<<Character("npc", <<"cow", 0>>, "cow", first),
       Character("npc", <<"pug", 1>>, "pug", second)>> :
         first \in {1, 2}, second \in {1, 2}}

initCharacters(herd) ==
    /\ characters = <<Character("player", <<"player", 0>>, "cow", 0)>> \o herd
    /\ remotePlayers = {}
    /\ updateCount = 0
    /\ jumpHeld = FALSE
    /\ walkAudioPlaying = FALSE
    /\ playerState = "idle"
    /\ playerId = Null
    /\ played = <<>>
    /\ lastCall = [op |-> "none"]
    /\ calls = 0

\* ------------------------------------- the frame loop with a remote player
GameInit == NoHub /\ NoSync /\ NoTrip /\ \E herd \in Herds : initCharacters(herd)

Frame(step) ==
    /\ calls < MaxFrames
    /\ calls' = calls + 1
    /\ step
    /\ UNCHANGED <<vars, sync, trip>>

\* ----------------------------------------------------------- Game.start
\* the page disposes of its world and constructs another in the same process:
\* the new characters take the registry entries of their names, the fields of
\* the Game are those of a new Game, and the static Player.updateCount is
\* what the earlier world left
NewGame(herd) ==
    /\ characters' = <<Character("player", <<"player", 0>>, "cow", 0)>> \o herd
    /\ remotePlayers' = {}
    /\ jumpHeld' = FALSE
    /\ walkAudioPlaying' = FALSE
    /\ playerState' = "idle"
    /\ playerId' = Null
    /\ played' = <<>>
    /\ lastCall' = [op |-> "start"]
    /\ UNCHANGED updateCount

GameNext ==
    \/ \E input \in Inputs, deltaTime \in Deltas : Frame(Animate(input, deltaTime))
    \/ \E snapshot \in NearSnapshots : Frame(ApplyRemoteSnapshot(snapshot))
    \/ \E herd \in Herds : Frame(NewGame(herd))

GameSpec == GameInit /\ [][GameNext]_world

\* ------------------------------- the reconciliation of relayed snapshots
ReconcileInit ==
    NoHub /\ NoSync /\ NoTrip
          /\ \E herd \in Herds : herd[1].position = 2 /\ herd[2].position = 2
                                 /\ initCharacters(herd)

Relay(step) ==
    /\ calls < MaxRelays
    /\ calls' = calls + 1
    /\ step
    /\ UNCHANGED <<vars, sync, trip>>

ReconcileNext ==
    \/ \E deltaTime \in Deltas :
           Relay(Animate([look |-> FALSE, move |-> 0, jump |-> FALSE], deltaTime))
    \/ \E id \in RemoteIds : Relay(SetLocalPlayerId(id))
    \/ \E snapshot \in Snapshots : Relay(ApplyRemoteSnapshot(snapshot))
    \/ \E id \in RemoteIds : Relay(RemoveRemotePlayer(id))

ReconcileSpec == ReconcileInit /\ [][ReconcileNext]_world

\* ------------------------------------------ the frame loop, frame on frame
\* requestAnimationFrame(this.animate) asks for the next frame at the end of
\* every frame; calls holds the parity of the frames run
requestAnimationFrame == calls' = (calls + 1) % 2

LiveNext ==
    /\ requestAnimationFrame
    /\ \E input \in Inputs, deltaTime \in Deltas : Animate(input, deltaTime)
    /\ UNCHANGED <<vars, sync, trip>>

LiveSpec == GameInit /\ [][LiveNext]_world /\ WF_calls(requestAnimationFrame)

\* ======================================================== the sync client
\* the room the client is configured for
ROOM_ID == <<"r">>

\* milliseconds
DEFAULT_UPDATE_INTERVAL_MS == 120

\* the delay scheduleReconnect passes to window.setTimeout, in milliseconds
ReconnectDelay == 500

\* the frame loop calls update with the frame's time, in milliseconds: frames
\* come 60 ms apart, or a multiple of that
Times == {60 * k : k \in 0..MaxTicks}

\* new WebSocket(url) with the four listeners added; log is what happened at
\* the socket, in order: its open and close events, the messages it was
\* given to send and the messages it delivered
WebSocket == [readyState |-> "CONNECTING", listeners |-> TRUE, log |-> <<>>]

\* the client, its sockets, the window and the game it serves
theClient ==
    [multiplayer |-> multiplayer, sockets |-> sockets, window |-> window,
     game |-> theGame]

\* ------------------------------------ MultiplayerClient.clearReconnectTimer
clearReconnectTimerKeepingTimeout(st) ==
    [st EXCEPT !.multiplayer.reconnectTimer = Null]

clearReconnectTimer(st) ==
    IF st.multiplayer.reconnectTimer # Null
    THEN [st EXCEPT !.window.timers =
                        {t \in @ : t.id # st.multiplayer.reconnectTimer[1]},
                    !.multiplayer.reconnectTimer = Null]
    ELSE st

\* -------------------------------------- MultiplayerClient.scheduleReconnect
scheduleReconnectNever(st) == st

scheduleReconnect(st) ==
    IF st.multiplayer.reconnectTimer # Null THEN st
    ELSE [st EXCEPT !.window.timers =
                        @ \cup {[id |-> st.window.nextTimer, delay |-> ReconnectDelay]},
                    !.window.nextTimer = @ + 1,
                    !.multiplayer.reconnectTimer = Some(st.window.nextTimer)]

\* ------------------------------------------------ MultiplayerClient.dispose
\* socket.close() takes an open or connecting socket to CLOSING; its close
\* event comes later
dispose(st) ==
    LET cleared == clearReconnectTimer(st)
        s == cleared.multiplayer.socket[1]
    IN  IF cleared.multiplayer.socket = Null THEN cleared
        ELSE [cleared EXCEPT
                  !.multiplayer.suppressReconnect = TRUE,
                  !.sockets[s].listeners = FALSE,
                  !.sockets[s].readyState =
                      IF @ \in {"OPEN", "CONNECTING"} THEN "CLOSING" ELSE @,
                  !.multiplayer.socket = Null,
                  !.multiplayer.playerId = Null,
                  !.multiplayer.lastSentAt = 0]

\* ------------------------------------------------ MultiplayerClient.connect
connect(st) ==
    LET fresh == clearReconnectTimer(dispose(st))
    IN  [fresh EXCEPT !.sockets = Append(@, WebSocket),
                      !.multiplayer.socket = Some(Len(fresh.sockets) + 1)]

\* socket.send(data) on the client's socket: an open socket takes the
\* message; at is the time of the frame it is sent in
socketSend(st, data) ==
    LET s == st.multiplayer.socket[1]
    IN  IF st.sockets[s].readyState = "OPEN"
        THEN [st EXCEPT !.sockets[s].log =
                            Append(@, [event |-> "send", data |-> data,
                                       at |-> st.window.now])]
        ELSE st

\* --------------------------------------------- MultiplayerClient.handleOpen
joinMessageDefaultRoom == [type |-> "join", room |-> DEFAULT_ROOM]

joinMessage == [type |-> "join", room |-> ROOM_ID]

handleOpen(st) ==
    IF st.multiplayer.socket = Null THEN st
    ELSE socketSend([clearReconnectTimer(st) EXCEPT !.multiplayer.lastSentAt = 0],
                    joinMessage)

\* -------------------------------------------- MultiplayerClient.handleClose
handleClose(st) ==
    LET lost == [st EXCEPT !.multiplayer.socket = Null,
                           !.multiplayer.playerId = Null,
                           !.game = clearRemotePlayers(@)]
    IN  IF st.multiplayer.suppressReconnect
        THEN [lost EXCEPT !.multiplayer.suppressReconnect = FALSE]
        ELSE scheduleReconnect(lost)

\* ------------------------------------------ MultiplayerClient.handleMessage
\* payload.players.forEach(snapshot => game.applyRemoteSnapshot(snapshot))
RECURSIVE applyEach(_, _)
applyEach(g, snapshots) ==
    IF snapshots = <<>> THEN g
    ELSE applyEach(applyRemoteSnapshot(g, Head(snapshots)), Tail(snapshots))

handleMessageIgnoringLeave(st, payload) ==
    CASE payload.type = "init" ->
             [st EXCEPT !.multiplayer.playerId = Some(payload.id),
                        !.game = applyEach(setLocalPlayerId(@, payload.id),
                                           payload.players)]
      [] payload.type = "player-update" ->
             [st EXCEPT !.game = applyRemoteSnapshot(@, payload.player)]
      [] OTHER -> st

handleMessageOwnRoomOnly(st, payload) ==
    CASE payload.type = "init" /\ payload.roomId = ROOM_ID ->
             [st EXCEPT !.multiplayer.playerId = Some(payload.id),
                        !.game = applyEach(setLocalPlayerId(@, payload.id),
                                           payload.players)]
      [] payload.type = "player-update" ->
             [st EXCEPT !.game = applyRemoteSnapshot(@, payload.player)]
      [] payload.type = "player-leave" ->
             [st EXCEPT !.game = removeRemotePlayer(@, payload.id)]
      [] OTHER -> st

handleMessage(st, payload) ==
    CASE payload.type = "init" ->
             [st EXCEPT !.multiplayer.playerId = Some(payload.id),
                        !.game = applyEach(setLocalPlayerId(@, payload.id),
                                           payload.players)]
      [] payload.type = "player-update" ->
             [st EXCEPT !.game = applyRemoteSnapshot(@, payload.player)]
      [] payload.type = "player-leave" ->
             [st EXCEPT !.game = removeRemotePlayer(@, payload.id)]
      [] OTHER -> st

\* ------------------------------------------------------ Game.buildSnapshot
\* the local player is the first character constructed
buildSnapshotLastAction(g, id, now) ==
    LET player == g.characters[1]
    IN  [id |-> id, position |-> player.position, rotation |-> player.rotation,
         state |-> player.lastAction, timeScale |-> player.timeScale,
         walkSpeed |-> player.speed \div walkSpeed,
         model |-> player.modelName, timestamp |-> now]

buildSnapshot(g, id, now) ==
    LET player == g.characters[1]
    IN  [id |-> id, position |-> player.position, rotation |-> player.rotation,
         state |-> IF player.action # "" THEN player.action
                   ELSE IF player.clip # "" THEN player.clip
                   ELSE "idle",
         timeScale |-> IF player.clip # "" THEN player.timeScale ELSE 1,
         walkSpeed |-> IF walkSpeed = 0 THEN 0 ELSE player.speed \div walkSpeed,
         model |-> player.modelName, timestamp |-> now]

\* ------------------------------------------------- MultiplayerClient.update
throttledNever(lastSentAt, nowMs) == FALSE

throttled(lastSentAt, nowMs) == nowMs - lastSentAt < DEFAULT_UPDATE_INTERVAL_MS

confirmed(m) == m.playerId # Null

multiplayerUpdate(st, nowMs) ==
    LET m == st.multiplayer
    IN  IF \/ m.socket = Null
           \/ st.sockets[m.socket[1]].readyState # "OPEN"
           \/ ~confirmed(m)
        THEN st
        ELSE IF throttled(m.lastSentAt, nowMs) THEN st
        ELSE [socketSend(st, [type |-> "state",
                              player |-> buildSnapshot(st.game, m.playerId[1], nowMs)])
                  EXCEPT !.multiplayer.lastSentAt = nowMs]

\* ------------------------------------------- the client among its events
\* the step leaves the client, its sockets, the window and the game as st
Becomes(st) ==
    /\ multiplayer' = st.multiplayer
    /\ sockets' = st.sockets
    /\ window' = st.window
    /\ characters' = st.game.characters
    /\ remotePlayers' = st.game.remotePlayers
    /\ playerId' = st.game.playerId
    /\ played' = <<>>
    /\ UNCHANGED <<updateCount, jumpHeld, walkAudioPlaying, playerState>>

\* the game, or the page, calls connect()
Connect ==
    /\ Becomes(connect(theClient))
    /\ lastCall' = [op |-> "connect"]

\* the game calls dispose()
Dispose ==
    /\ Becomes(dispose(theClient))
    /\ lastCall' = [op |-> "dispose"]

\* a pending timeout of the window runs its callback
Timeout(t) ==
    /\ t \in window.timers
    /\ Becomes(connect([theClient EXCEPT !.window.timers = @ \ {t},
                                         !.multiplayer.reconnectTimer = Null]))
    /\ lastCall' = [op |-> "timeout", timer |-> t.id]

\* a connecting socket opens
SocketOpen(s) ==
    /\ sockets[s].readyState = "CONNECTING"
    /\ \E opened \in {[theClient EXCEPT
                            !.sockets[s].readyState = "OPEN",
                            !.sockets[s].log = Append(@, [event |-> "open"])]} :
           Becomes(IF sockets[s].listeners THEN handleOpen(opened) ELSE opened)
    /\ lastCall' = [op |-> "open", socket |-> s]

\* a socket closes: the connection failed, was lost, or its closing
\* handshake ended
SocketClose(s) ==
    /\ sockets[s].readyState # "CLOSED"
    /\ \E closed \in {[theClient EXCEPT
                            !.sockets[s].readyState = "CLOSED",
                            !.sockets[s].log = Append(@, [event |-> "close"])]} :
           Becomes(IF sockets[s].listeners THEN handleClose(closed) ELSE closed)
    /\ lastCall' = [op |-> "close", socket |-> s, listened |-> sockets[s].listeners]

\* the snapshots the hub lists and relays to this client
PeerSnapshots ==
    {snapshot \in Snapshots :
         /\ snapshot.position = 2 /\ snapshot.state = "walk"
         /\ snapshot.timeScale = 1 /\ snapshot.walkSpeed = 1
         /\ snapshot.model = "pug" /\ snapshot.timestamp = 1}

\* the messages the hub sends, and one of no known type
ServerMessages ==
    {[type |-> "init", id |-> id, roomId |-> ROOM_ID, players |-> players] :
         id \in RemoteIds,
         players \in {<<>>} \cup {pair \in PeerSnapshots \X PeerSnapshots :
                                      pair[1].id < pair[2].id}}
    \cup {[type |-> "init", id |-> id, roomId |-> DEFAULT_ROOM, players |-> players] :
              id \in RemoteIds,
              players \in {pair \in PeerSnapshots \X PeerSnapshots :
                               pair[1].id < pair[2].id}}
    \cup {[type |-> "player-update", player |-> player] : player \in PeerSnapshots}
    \cup {[type |-> "player-leave", id |-> id] : id \in RemoteIds}
    \cup {[type |-> "pong", timestamp |-> 1], [type |-> "moo"]}

\* an open socket the client listens to delivers a message of the hub
SocketMessage(s, payload) ==
    /\ sockets[s].readyState = "OPEN"
    /\ sockets[s].listeners
    /\ Becomes(handleMessage(
                   [theClient EXCEPT !.sockets[s].log =
                                         Append(@, [event |-> "message", data |-> payload])],
                   payload))
    /\ lastCall' = [op |-> "message", socket |-> s, payload |-> payload]

\* a frame calls update with its time
Update(nowMs) ==
    /\ nowMs > window.now
    /\ Becomes(multiplayerUpdate([theClient EXCEPT !.window.now = nowMs], nowMs))
    /\ lastCall' = [op |-> "update", now |-> nowMs, threw |-> FALSE]

\* socket.send throws in update: the catch logs the error, nothing is retried
\* the socket's log keeps the message that was not taken
sendFailedAdvancing(st, nowMs) ==
    LET m == st.multiplayer
    IN  [st EXCEPT !.sockets[m.socket[1]].log =
                       Append(@, [event |-> "throw",
                                  data |-> [type |-> "state",
                                            player |-> buildSnapshot(st.game, m.playerId[1],
                                                                     nowMs)],
                                  at |-> nowMs]),
                   !.multiplayer.lastSentAt = nowMs]

sendFailed(st, nowMs) ==
    LET m == st.multiplayer
    IN  [st EXCEPT !.sockets[m.socket[1]].log =
                       Append(@, [event |-> "throw",
                                  data |-> [type |-> "state",
                                            player |-> buildSnapshot(st.game, m.playerId[1],
                                                                     nowMs)],
                                  at |-> nowMs])]

\* a frame calls update with its time, the state message is built and
\* socket.send throws
UpdateThrows(nowMs) ==
    /\ nowMs > window.now
    /\ multiplayer.socket # Null
    /\ sockets[multiplayer.socket[1]].readyState = "OPEN"
    /\ confirmed(multiplayer)
    /\ ~throttled(multiplayer.lastSentAt, nowMs)
    /\ Becomes(sendFailed([theClient EXCEPT !.window.now = nowMs], nowMs))
    /\ lastCall' = [op |-> "update", now |-> nowMs, threw |-> TRUE]

SyncInit ==
    /\ NoHub
    /\ NoSync
    /\ NoTrip
    /\ \E herd \in Herds : herd[1].position = 2 /\ herd[2].position = 2
                           /\ initCharacters(herd)

Sync(step) ==
    /\ calls < MaxSteps
    /\ calls' = calls + 1
    /\ step
    /\ UNCHANGED <<vars, trip>>

SyncNext ==
    \/ Sync(Connect)
    \/ Sync(Dispose)
    \/ \E t \in window.timers : Sync(Timeout(t))
    \/ \E s \in DOMAIN sockets : Sync(SocketOpen(s))
    \/ \E s \in DOMAIN sockets : Sync(SocketClose(s))
    \/ \E s \in DOMAIN sockets, payload \in ServerMessages : Sync(SocketMessage(s, payload))
    \/ \E nowMs \in Times : Sync(Update(nowMs))
    \/ \E nowMs \in Times : Sync(UpdateThrows(nowMs))

SyncSpec == SyncInit /\ [][SyncNext]_<<world, sync>>

\* ================================= the shipped client losing its connection
\* Game.start calls connect() once and nothing calls dispose(); the hub
\* accepts every connection and answers the join of each with one init in
\* the room asked for; connections are lost, MaxLosses times at most
InitReplies ==
    {payload \in ServerMessages : payload.type = "init" /\ payload.roomId = ROOM_ID}

Survive(step) ==
    /\ step
    /\ UNCHANGED calls
    /\ UNCHANGED <<vars, trip>>

Lose(step) ==
    /\ calls < MaxLosses
    /\ calls' = calls + 1
    /\ step
    /\ UNCHANGED <<vars, trip>>

\* the steps that the page, the window's timers and the hub bring about; the
\* hub's init comes to the socket held, once, after the join sent at its open
Progress ==
    \/ sockets = <<>> /\ Survive(Connect)
    \/ \E t \in window.timers : Survive(Timeout(t))
    \/ \E s \in DOMAIN sockets : Survive(SocketOpen(s))
    \/ \E s \in DOMAIN sockets, payload \in InitReplies :
           /\ multiplayer.socket = Some(s)
           /\ multiplayer.playerId = Null
           /\ Survive(SocketMessage(s, payload))

LossNext ==
    \/ Progress
    \/ \E s \in DOMAIN sockets : Lose(SocketClose(s))

LossSpec == SyncInit /\ [][LossNext]_<<world, sync>> /\ WF_<<world, sync>>(Progress)

\* ==================================== a state message from client to client
\* JSON.stringify of a snapshot and JSON.parse of the text: the values in the
\* order of the object's keys
stringify(player) ==
    <<player.id, player.position, player.rotation, player.state,
      player.timeScale, player.walkSpeed, player.model, player.timestamp>>

parse(data) ==
    [id |-> data[1], position |-> data[2], rotation |-> data[3], state |-> data[4],
     timeScale |-> data[5], walkSpeed |-> data[6], model |-> data[7],
     timestamp |-> data[8]]

\* the first client's update sends its snapshot under the identifier the hub
\* gave it; origin is the local player the snapshot was built from
SendState ==
    /\ wire = Null
    /\ playerId # Null
    /\ wire' = Some([stage |-> "sent", origin |-> characters[1],
                     data |-> stringify(buildSnapshot(theGame, playerId[1], calls))])
    /\ lastCall' = [op |-> "send"]
    /\ played' = <<>>
    /\ UNCHANGED <<characters, remotePlayers, updateCount, jumpHeld,
                   walkAudioPlaying, playerState, playerId, peer>>

\* the hub's case 'state' for the first client's connection, whose identifier
\* is id, and the broadcast to the second client
HubRelay(id) ==
    /\ wire # Null
    /\ wire[1].stage = "sent"
    /\ wire' = Some([wire[1] EXCEPT !.stage = "relayed",
                                    !.data = stringify(stamp(parse(wire[1].data), id))])
    /\ lastCall' = [op |-> "relay", id |-> id]
    /\ played' = <<>>
    /\ UNCHANGED <<characters, remotePlayers, updateCount, jumpHeld,
                   walkAudioPlaying, playerState, playerId, peer>>

\* the second client's handleMessage for the player-update
PeerApply ==
    /\ wire # Null
    /\ wire[1].stage = "relayed"
    /\ peer' = applyRemoteSnapshot(peer, parse(wire[1].data))
    /\ wire' = Null
    /\ lastCall' = [op |-> "apply", snapshot |-> parse(wire[1].data)]
    /\ played' = <<>>
    /\ UNCHANGED <<characters, remotePlayers, updateCount, jumpHeld,
                   walkAudioPlaying, playerState, playerId>>

\* both clients have run initCharacters; the hub named the first one 1 and
\* the second one 2, which has had its init or not, and has a proxy of the
\* first from an earlier snapshot or not
RoundTripInit ==
    /\ NoHub
    /\ NoSync
    /\ wire = Null
    /\ \E herd \in Herds :
           /\ herd[1].position = 2 /\ herd[2].position = 2
           /\ characters = <<Character("player", <<"player", 0>>, "cow", 0)>> \o herd
           /\ \E id \in {Null, Some(2)},
                 earlier \in {<<>>} \cup {<<snapshot>> : snapshot \in
                                 {e \in Snapshots : /\ e.id = 1 /\ e.timestamp = 1
                                                     /\ e.position = 2
                                                     /\ e.timeScale = 1
                                                     /\ e.walkSpeed = 1
                                                     /\ e.model = "pug"}} :
                  peer = applyEach([characters |-> characters, remotePlayers |-> {},
                                    playerId |-> id],
                                   earlier)
    /\ remotePlayers = {}
    /\ updateCount = 0
    /\ jumpHeld = FALSE
    /\ walkAudioPlaying = FALSE
    /\ playerState = "idle"
    /\ playerId = Some(1)
    /\ played = <<>>
    /\ lastCall = [op |-> "none"]
    /\ calls = 0

Trip(step) ==
    /\ calls < MaxTrips
    /\ calls' = calls + 1
    /\ step
    /\ UNCHANGED <<vars, sync>>

\* the first client's frames are one time unit long
RoundTripNext ==
    \/ \E input \in Inputs : Trip(Animate(input, 1) /\ UNCHANGED trip)
    \/ Trip(SendState)
    \/ Trip(HubRelay(1))
    \/ Trip(PeerApply)

RoundTripSpec == RoundTripInit /\ [][RoundTripNext]_<<world, trip>>

\* ============================================ the shipped client at the hub
\* One shipped client, connected by Game.start and by its reconnect timer
\* only, and the other connections of the hub. wire is the network between
\* the two: link[s] is the identifier the hub gave to the connection of the
\* client's socket s, toClient the messages the hub has sent to the client's
\* current connection and the client has not handled yet. A message of the
\* client reaches the hub in the step it is sent in, and so does its
\* connection request; what is in flight on a connection the client has lost
\* is lost with it. The hub hears of a lost connection later, in a step of
\* its own.
SessionInit ==
    /\ NoHub
    /\ NoSync
    /\ wire = [link |-> <<>>, toClient |-> <<>>]
    /\ peer = [characters |-> <<>>, remotePlayers |-> {}, playerId |-> Null]
    /\ \E herd \in Herds : herd[1].position = 2 /\ herd[2].position = 2
                           /\ initCharacters(herd)

\* the identifier of the connection behind the socket the client holds
held(m, link) == IF m.socket = Null THEN 0 ELSE link[m.socket[1]]

\* a step of the session: the client handles taken of the messages waiting
\* for it, and byClient, byHub tell which of the two sides act
Session(step, taken, byClient, byHub) ==
    /\ calls < MaxSession
    /\ calls' = calls + 1
    /\ step
    /\ IF byClient
       THEN TRUE
       ELSE /\ lastCall' = [op |-> "hub"]
            /\ played' = <<>>
            /\ UNCHANGED <<sync, characters, remotePlayers, updateCount, jumpHeld,
                           walkAudioPlaying, playerState, playerId>>
    /\ IF byHub THEN TRUE ELSE UNCHANGED <<clients, readyState, nextId, sent, lastEvent>>
    /\ LET link == IF Len(sockets') > Len(sockets)
                   THEN Append(wire.link, nextId)
                   ELSE wire.link
           waiting == IF multiplayer'.socket = multiplayer.socket
                      THEN SubSeq(wire.toClient, taken + 1, Len(wire.toClient))
                      ELSE <<>>
           arrived == IF byHub
                      THEN SelectSeq(sent', LAMBDA e : e.to = held(multiplayer', link))
                      ELSE <<>>
       IN  wire' = [link |-> link,
                    toClient |-> waiting \o [i \in DOMAIN arrived |-> arrived[i].msg]]
    /\ UNCHANGED <<events, peer>>

\* connect(), called by Game.start or by the reconnect timer, constructs a
\* socket and the hub accepts its connection
Dial ==
    /\ \/ sockets = <<>> /\ Connect
       \/ \E t \in window.timers : Timeout(t)
    /\ OnConnection

\* the socket opens, handleOpen sends join and the hub handles it
Opened(s) ==
    /\ SocketOpen(s)
    /\ OnJoin(wire.link[s], [kind |-> "string", value |-> joinMessage.room])

\* a frame's update; the hub handles the state message if one is sent
Tick(nowMs) ==
    /\ Update(nowMs)
    /\ IF multiplayer.socket # Null /\ sockets' # sockets
       THEN LET log == sockets'[multiplayer.socket[1]].log
            IN  OnState(held(multiplayer, wire.link), log[Len(log)].data.player)
       ELSE UNCHANGED <<clients, readyState, nextId, sent, lastEvent>>

\* the connections of the hub that are not the client's
Others == DOMAIN clients \ {wire.link[s] : s \in DOMAIN wire.link}

\* the connections whose close the hub can be told of: another client's, or
\* one of the client's whose socket has closed
Closable ==
    Others \cup {wire.link[s] : s \in {x \in DOMAIN sockets : sockets[x].readyState = "CLOSED"}}

SessionNext ==
    \/ Session(Dial, 0, TRUE, TRUE)
    \/ \E s \in DOMAIN sockets : Session(Opened(s), 0, TRUE, TRUE)
    \/ \E nowMs \in {DEFAULT_UPDATE_INTERVAL_MS, 2 * DEFAULT_UPDATE_INTERVAL_MS} :
           Session(Tick(nowMs), 0, TRUE, TRUE)
    \/ /\ wire.toClient # <<>>
       /\ Session(SocketMessage(multiplayer.socket[1], Head(wire.toClient)), 1, TRUE, FALSE)
    \/ \E s \in DOMAIN sockets :
           multiplayer.socket = Some(s) /\ Session(SocketClose(s), 0, TRUE, FALSE)
    \/ Session(OnConnection, 0, FALSE, TRUE)
    \/ \E id \in Others, roomId \in {ROOM_ID, DEFAULT_ROOM} :
           Session(OnJoin(id, [kind |-> "string", value |-> roomId]), 0, FALSE, TRUE)
    \/ \E id \in Others, player \in {snapshot \in PeerSnapshots : snapshot.id = 1} :
           Session(OnState(id, player), 0, FALSE, TRUE)
    \/ \E id \in Closable \cap DOMAIN clients : Session(OnClose(id), 0, FALSE, TRUE)

SessionSpec == SessionInit /\ [][SessionNext]_<<vars, world, sync, trip>>

\* ================================================================ claims
BroadcastTypes == {"player-update", "player-leave"}

\* the positions of a sequence of sent entries that hold a message of a type
OfType(entries, type) == {i \in 1..Len(entries) : entries[i].msg.type = type}

\* the connections a broadcast to a room reaches: joined to it, channel open
OpenPeers(cl, rs, roomId, x) ==
    {p \in DOMAIN cl \ {x} : cl[p].joined /\ cl[p].roomId = roomId /\ rs[p] = "OPEN"}

\* C1 - room isolation: every recipient of a player-update or player-leave
\* caused by connection x is, when it is delivered, a joined connection whose
\* recorded room is the room x was in when its event arrived (its current
\* room for state and disconnect, its previous room for a room switch).
RoomIsolation ==
    [][\A i \in 1..Len(sent') :
           sent'[i].msg.type \in BroadcastTypes =>
               LET x == lastEvent'.conn
                   to == sent'[i].to
               IN  /\ x \in DOMAIN clients
                   /\ to \in DOMAIN clients'
                   /\ clients'[to].joined
                   /\ clients'[to].roomId = clients[x].roomId]_vars

\* a player-update was delivered while another joined, open connection sat
\* in a different room
RoomIsolationWitness ==
    /\ lastEvent.type = "state"
    /\ OfType(sent, "player-update") # {}
    /\ \E c \in DOMAIN clients \ {lastEvent.conn} :
           /\ clients[c].joined
           /\ readyState[c] = "OPEN"
           /\ clients[c].roomId # clients[lastEvent.conn].roomId

\* C2 - identifier overwrite: every stored snapshot carries the identifier of
\* the record that stores it, an accepted state message stores the client's
\* snapshot with only its id replaced by the sender's, and every
\* player-update carries the sender's identifier and that stored snapshot.
IdentifierOverwrite ==
    /\ \A c \in DOMAIN clients :
           /\ clients[c].id = c
           /\ clients[c].snapshot # Null => clients[c].snapshot[1].id = c
    /\ (lastEvent.type = "state" /\ clients[lastEvent.conn].joined) =>
           /\ clients[lastEvent.conn].snapshot # Null
           /\ clients[lastEvent.conn].snapshot[1].id = lastEvent.conn
           /\ clients[lastEvent.conn].snapshot[1].timestamp = lastEvent.player.timestamp
    /\ \A i \in OfType(sent, "player-update") :
           /\ sent[i].msg.player.id = lastEvent.conn
           /\ Some(sent[i].msg.player) = clients[lastEvent.conn].snapshot

\* a client claimed another connection's identifier and its update went out
IdentifierOverwriteWitness ==
    /\ lastEvent.type = "state"
    /\ lastEvent.player.id # lastEvent.conn
    /\ OfType(sent, "player-update") # {}

\* C3 - a state message from a connection that has not joined changes no
\* record (its snapshot stays null) and sends nothing.
StateBeforeJoinIgnored ==
    [][\A c \in DOMAIN clients :
           (lastEvent'.type = "state" /\ lastEvent'.conn = c /\ ~clients[c].joined) =>
               /\ clients' = clients
               /\ clients'[c].snapshot = Null
               /\ sent' = <<>>]_vars

\* an unjoined connection sent state while an open peer sat joined in the
\* room its record names
StateBeforeJoinIgnoredWitness ==
    /\ lastEvent.type = "state"
    /\ lastEvent.conn \in DOMAIN clients
    /\ ~clients[lastEvent.conn].joined
    /\ OpenPeers(clients, readyState, clients[lastEvent.conn].roomId, lastEvent.conn) # {}

\* C4 - no player-update or player-leave is delivered to the connection
\* whose event caused it.
NoEcho ==
    \A i \in 1..Len(sent) :
        sent[i].msg.type \in BroadcastTypes => sent[i].to # lastEvent.conn

\* a joined, open connection's state went out to a peer of its room
NoEchoWitness ==
    /\ lastEvent.type = "state"
    /\ readyState[lastEvent.conn] = "OPEN"
    /\ \E i \in OfType(sent, "player-update") : sent[i].to # lastEvent.conn

\* C5 - after every join the recorded room is the room argument without its
\* leading and trailing blanks, or the default room when the argument is
\* absent, null, empty or blank.
IsBlank(s) == \A i \in 1..Len(s) : s[i] = " "

IsTrimOf(r, s) ==
    /\ r # <<>>
    /\ r[1] # " "
    /\ r[Len(r)] # " "
    /\ \E i \in 0..Len(s) :
           /\ i + Len(r) <= Len(s)
           /\ IsBlank(SubSeq(s, 1, i))
           /\ SubSeq(s, i + 1, i + Len(r)) = r
           /\ IsBlank(SubSeq(s, i + Len(r) + 1, Len(s)))

RoomFromLastJoin ==
    lastEvent.type = "join" =>
        LET r == clients[lastEvent.conn].roomId
            room == lastEvent.room
        IN  IF room.kind = "string" /\ ~IsBlank(room.value)
            THEN IsTrimOf(r, room.value)
            ELSE r = DEFAULT_ROOM

\* a later join: a blank room argument took a snapshot-bearing connection out
\* of another room (its old peers were told) and into the default room
RoomFromLastJoinWitness ==
    /\ lastEvent.type = "join"
    /\ lastEvent.room.kind = "string"
    /\ lastEvent.room.value = <<" ">>
    /\ OfType(sent, "player-leave") # {}

\* C6 - a joined, snapshot-bearing connection x that joins a different room
\* sends exactly one player-leave{id: x} to each open peer joined to its old
\* room, none to x and none to anyone else, all before x's init for the new room.
SwitchLeavesOldRoom ==
    [][\A x \in DOMAIN clients :
           (/\ lastEvent'.type = "join"
            /\ lastEvent'.conn = x
            /\ clients[x].joined
            /\ clients[x].snapshot # Null
            /\ clients'[x].roomId # clients[x].roomId) =>
               LET remaining == OpenPeers(clients, readyState, clients[x].roomId, x)
                   leaves == OfType(sent', "player-leave")
                   inits == OfType(sent', "init")
               IN  /\ \A i \in leaves : sent'[i].msg.id = x /\ sent'[i].to \in remaining
                   /\ \A p \in remaining : Cardinality({i \in leaves : sent'[i].to = p}) = 1
                   /\ \A i \in leaves, j \in inits : i < j
                   /\ \A j \in inits :
                          sent'[j].to = x /\ sent'[j].msg.roomId = clients'[x].roomId
                   /\ leaves \cup inits = 1..Len(sent')]_vars

\* a switch told a peer of the old room while an open peer sat in the new one
SwitchLeavesOldRoomWitness ==
    /\ lastEvent.type = "join"
    /\ OfType(sent, "player-leave") # {}
    /\ \E j \in OfType(sent, "init") : sent[j].to = lastEvent.conn
    /\ OpenPeers(clients, readyState, clients[lastEvent.conn].roomId, lastEvent.conn) # {}

\* C7 - a room switch clears the switching connection's snapshot; a snapshot
\* is stored again only by a state message of its own connection; and every
\* snapshot an init reply lists is the one its owner holds now, the owner
\* being in the room the reply is for.
SwitchClearsSnapshot ==
    [][/\ \A x \in DOMAIN clients :
              (/\ lastEvent'.type = "join"
               /\ lastEvent'.conn = x
               /\ clients[x].snapshot # Null
               /\ clients'[x].roomId # clients[x].roomId) =>
                  clients'[x].snapshot = Null
       /\ \A x \in DOMAIN clients \cap DOMAIN clients' :
              (clients[x].snapshot = Null /\ clients'[x].snapshot # Null) =>
                  lastEvent'.type = "state" /\ lastEvent'.conn = x
       /\ \A i \in OfType(sent', "init") :
              \A k \in 1..Len(sent'[i].msg.players) :
                  LET p == sent'[i].msg.players[k]
                  IN  /\ p.id \in DOMAIN clients'
                      /\ clients'[p.id].snapshot = Some(p)
                      /\ clients'[p.id].roomId = sent'[i].msg.roomId]_vars

\* a snapshot-bearing connection switched rooms: its old peers were told and
\* it holds no snapshot
SwitchClearsSnapshotWitness ==
    /\ lastEvent.type = "join"
    /\ \E i \in OfType(sent, "player-leave") : sent[i].msg.id = lastEvent.conn
    /\ clients[lastEvent.conn].snapshot = Null
    /\ clients[lastEvent.conn].joined

\* C8 - a join on an open channel is answered by one init; its players are
\* exactly the snapshots held by the other joined connections of the
\* requester's new room, in ascending timestamp order, the requester's own
\* never among them.
InitListsRoom ==
    /\ (lastEvent.type = "join" /\ readyState[lastEvent.conn] = "OPEN") =>
           Cardinality(OfType(sent, "init")) = 1
    /\ \A i \in OfType(sent, "init") :
           LET x == sent[i].to
               m == sent[i].msg
               others == {c \in DOMAIN clients \ {x} :
                              /\ clients[c].joined
                              /\ clients[c].snapshot # Null
                              /\ clients[c].roomId = clients[x].roomId}
           IN  /\ x = lastEvent.conn
               /\ m.id = x
               /\ m.roomId = clients[x].roomId
               /\ {m.players[k] : k \in 1..Len(m.players)}
                      = {clients[c].snapshot[1] : c \in others}
               /\ Len(m.players) = Cardinality(others)
               /\ \A k \in 1..(Len(m.players) - 1) :
                      m.players[k].timestamp <= m.players[k + 1].timestamp
               /\ \A k \in 1..Len(m.players) : m.players[k].id # x

\* an init listed two peers, the later-connected one first because its
\* snapshot is older
InitListsRoomWitness ==
    \E i \in OfType(sent, "init") :
        LET players == sent[i].msg.players
        IN  /\ Len(players) = 2
            /\ players[1].id > players[2].id
            /\ players[1].timestamp < players[2].timestamp

\* C9 - a disconnect removes the record; if the connection had joined, each
\* open peer joined to its room gets exactly one player-leave with its id
\* and nobody else gets anything; if it had not, nothing is sent.
DisconnectLeaves ==
    lastEvent.type = "close" =>
        LET x == lastEvent.conn
            record == lastEvent.record
            peers == OpenPeers(clients, readyState, record.roomId, x)
        IN  /\ x \notin DOMAIN clients
            /\ x \notin DOMAIN readyState
            /\ IF record.joined
               THEN /\ \A i \in 1..Len(sent) :
                           /\ sent[i].msg.type = "player-leave"
                           /\ sent[i].msg.id = x
                           /\ sent[i].to \in peers
                    /\ \A p \in peers :
                           Cardinality({i \in 1..Len(sent) : sent[i].to = p}) = 1
               ELSE sent = <<>>

\* a joined connection left: an open peer was told, a closing one was not
DisconnectLeavesWitness ==
    /\ lastEvent.type = "close"
    /\ lastEvent.record.joined
    /\ Len(sent) >= 1
    /\ \E c \in DOMAIN clients :
           /\ clients[c].joined
           /\ clients[c].roomId = lastEvent.record.roomId
           /\ readyState[c] = "CLOSING"

\* C10 - an accepted state of A puts exactly one player-update with id A in
\* front of every open peer joined to A's room; A's disconnect puts only
\* player-leave{id: A} there; and no message names an identifier whose
\* connection is gone, but for that player-leave (identifiers are not reused).
MentionedIds(m) ==
    CASE m.type = "player-update" -> {m.player.id}
      [] m.type = "player-leave" -> {m.id}
      [] m.type = "init" -> {m.id} \cup {m.players[k].id : k \in 1..Len(m.players)}
      [] OTHER -> {}

Departed == (1..(nextId - 1)) \ DOMAIN clients

UpdatesThenLeave ==
    /\ (lastEvent.type = "state" /\ clients[lastEvent.conn].joined) =>
           LET A == lastEvent.conn
           IN  \A B \in OpenPeers(clients, readyState, clients[A].roomId, A) :
                   /\ Cardinality({i \in 1..Len(sent) : sent[i].to = B}) = 1
                   /\ \A i \in 1..Len(sent) :
                          sent[i].to = B =>
                              /\ sent[i].msg.type = "player-update"
                              /\ sent[i].msg.player.id = A
    /\ (lastEvent.type = "close" /\ lastEvent.record.joined) =>
           LET A == lastEvent.conn
           IN  \A B \in OpenPeers(clients, readyState, lastEvent.record.roomId, A) :
                   \E i \in 1..Len(sent) :
                       /\ sent[i].to = B
                       /\ sent[i].msg.type = "player-leave"
                       /\ sent[i].msg.id = A
    /\ \A i \in 1..Len(sent) :
           \A id \in MentionedIds(sent[i].msg) \cap Departed :
               /\ lastEvent.type = "close"
               /\ lastEvent.conn = id
               /\ sent[i].msg.type = "player-leave"
    /\ DOMAIN clients \subseteq 1..(nextId - 1)
    /\ lastEvent.type = "connection" =>
           /\ lastEvent.conn = nextId - 1
           /\ clients[lastEvent.conn].snapshot = Null
           /\ ~clients[lastEvent.conn].joined
           /\ sent = <<>>

\* A, whose updates had been accepted, disconnected and an open peer was told
UpdatesThenLeaveWitness ==
    /\ lastEvent.type = "close"
    /\ lastEvent.record.snapshot # Null
    /\ \E i \in 1..Len(sent) :
           /\ sent[i].msg.type = "player-leave"
           /\ sent[i].msg.id = lastEvent.conn
           /\ sent[i].to \in DOMAIN clients
           /\ readyState[sent[i].to] = "OPEN"

\* C11 - a ping is answered by one pong with the ping's timestamp, handed to
\* the sender's own socket only (which carries it when open), joined or not;
\* no pong goes out otherwise, and a ping changes no connection record.
PingEchoed ==
    [][/\ \A c \in DOMAIN clients :
              (lastEvent'.type = "ping" /\ lastEvent'.conn = c) =>
                  /\ clients' = clients
                  /\ readyState' = readyState
                  /\ sent' = IF readyState[c] = "OPEN"
                             THEN <<[to |-> c,
                                     msg |-> [type |-> "pong",
                                              timestamp |-> lastEvent'.timestamp]]>>
                             ELSE <<>>
       /\ OfType(sent', "pong") # {} => lastEvent'.type = "ping"]_vars

\* a connection that has not joined was answered while open peers sat
\* joined in the room its record names
PingEchoedWitness ==
    /\ lastEvent.type = "ping"
    /\ ~clients[lastEvent.conn].joined
    /\ OfType(sent, "pong") # {}
    /\ OpenPeers(clients, readyState, clients[lastEvent.conn].roomId, lastEvent.conn) # {}

\* C12 - a message with an unrecognized type, or one that does not parse,
\* changes no record, no socket and no identifier, sends nothing, and leaves
\* the connection's record in the registry (its handlers stay installed).
UnknownDropped ==
    [][\A c \in DOMAIN clients :
           (lastEvent'.type \in {"unknown", "malformed"} /\ lastEvent'.conn = c) =>
               /\ clients' = clients
               /\ readyState' = readyState
               /\ nextId' = nextId
               /\ sent' = <<>>
               /\ c \in DOMAIN clients']_vars

\* a joined, snapshot-bearing connection with an open peer in its room sent
\* a message that does not parse
UnknownDroppedWitness ==
    /\ lastEvent.type = "malformed"
    /\ clients[lastEvent.conn].snapshot # Null
    /\ readyState[lastEvent.conn] = "OPEN"
    /\ OpenPeers(clients, readyState, clients[lastEvent.conn].roomId, lastEvent.conn) # {}

\* C13 - fan-out fault isolation: when one peer's send raises, every other
\* open peer of the addressed room still receives the broadcast that a
\* state message, a room-switching join or a disconnect triggers.
FanOutIsolated ==
    [][\A c \in DOMAIN clients :
           LET addressed ==
                   IF \/ lastEvent'.type = "state" /\ acceptsState(clients[c])
                      \/ lastEvent'.type = "close" /\ leaveOnClose(clients[c])
                      \/ /\ lastEvent'.type = "join"
                         /\ leaveOnSwitch(clients[c], nextRoomOf(lastEvent'.room))
                   THEN OpenPeers(clients, readyState, clients[c].roomId, c)
                   ELSE {}
           IN  lastEvent'.conn = c =>
                   \A p \in addressed \ {lastEvent'.thrower} :
                       \E i \in DOMAIN sent' : sent'[i].to = p]_vars

\* ------------------------------------------------ claims on the game world
\* the speed a transition to a state entails: the base walk speed times the
\* factor (1 when absent) for walk, 0 for idle and death, the old speed for
\* every other state
EntailedSpeed(old, state, options) ==
    IF state = "walk"
    THEN walkSpeed * (IF options.walkSpeed = Null THEN 1 ELSE options.walkSpeed[1])
    ELSE IF state \in {"idle", "death"} THEN 0 ELSE old

RequestedTimeScale(options) ==
    IF options.timeScale = Null THEN 1 ELSE options.timeScale[1]

\* C14 - changeState(s) with s the current state and force unset changes
\* nothing of the character (action, lastAction, active clip, clip time,
\* time scale, speed); with force set and a clip for s it restarts the clip
\* at time 0 and applies the requested time scale and the speed s entails.
SameStateRestart ==
    [][(lastCall'.op = "changeState" /\ lastCall'.state = characters[1].action) =>
           IF ~lastCall'.options.force
           THEN characters' = characters /\ playerState' = playerState
           ELSE lastCall'.state \in animations(characters[1].modelName) =>
                    /\ characters'[1].action = lastCall'.state
                    /\ characters'[1].clip = lastCall'.state
                    /\ characters'[1].time = 0
                    /\ ~characters'[1].paused
                    /\ characters'[1].timeScale = RequestedTimeScale(lastCall'.options)
                    /\ characters'[1].speed =
                           EntailedSpeed(characters[1].speed, lastCall'.state,
                                         lastCall'.options)]_world

\* a walking character was asked to walk again with force: its clip is back
\* at its start, playing backwards, and it walks backwards
SameStateRestartWitness ==
    /\ lastCall.op = "changeState"
    /\ lastCall.state = "walk"
    /\ lastCall.options.force
    /\ characters[1].lastAction = "walk"
    /\ characters[1].action = "walk"
    /\ characters[1].time = 0
    /\ characters[1].timeScale = -1
    /\ characters[1].speed = -walkSpeed

\* C15 - a transition to a state the model has no clip for is rejected: the
\* state label, the active clip with its time and time scale, and the speed
\* are what they were before the call.
UnknownClipRejected ==
    [][(/\ lastCall'.op = "changeState"
        /\ lastCall'.state \notin animations(characters[1].modelName)) =>
           /\ characters'[1].action = characters[1].action
           /\ characters'[1].clip = characters[1].clip
           /\ characters'[1].time = characters[1].time
           /\ characters'[1].timeScale = characters[1].timeScale
           /\ characters'[1].speed = characters[1].speed
           /\ playerState' = playerState]_world

\* a character walking backwards, its clip under way, was asked for "moo"
UnknownClipRejectedWitness ==
    /\ lastCall.op = "changeState"
    /\ lastCall.state = "moo"
    /\ characters[1].action = "walk"
    /\ characters[1].clip = "walk"
    /\ characters[1].time > 0
    /\ characters[1].timeScale = -1
    /\ characters[1].speed = -walkSpeed

\* C16 - an accepted transition sets the speed to the base walk speed times
\* the requested factor (1 when absent) for walk, to 0 for idle and death,
\* and leaves it as it was for any other state.
SpeedDerived ==
    [][(/\ lastCall'.op = "changeState"
        /\ lastCall'.state \in animations(characters[1].modelName)
        /\ (lastCall'.state # characters[1].action \/ lastCall'.options.force)) =>
           /\ characters'[1].action = lastCall'.state
           /\ characters'[1].speed =
                  EntailedSpeed(characters[1].speed, lastCall'.state,
                                lastCall'.options)]_world

\* a character walking backwards jumped and kept its speed
SpeedDerivedWitness ==
    /\ lastCall.op = "changeState"
    /\ lastCall.state = "jump"
    /\ characters[1].action = "jump"
    /\ characters[1].lastAction = "walk"
    /\ characters[1].speed = -walkSpeed

\* the characters of the registry that bear a name
Named(chs, name) == {i \in DOMAIN chs : chs[i].name = name}

\* the model names of the characters at the given places, in registry order
RECURSIVE KeysOf(_, _, _)
KeysOf(chs, places, i) ==
    IF i > Len(chs) THEN <<>>
    ELSE (IF i \in places THEN <<chs[i].modelName>> ELSE <<>>) \o KeysOf(chs, places, i + 1)

\* the characters whose world-space box, as the frame finds it, overlaps the
\* local player's
Overlapping ==
    {i \in DOMAIN characters \ {1} :
         \/ characters[1].matrixWorld - characters[i].matrixWorld \in -boundingBox..boundingBox
         \/ characters[1].matrixWorld - characters[i].matrixWorld + WorldSize
                \in -boundingBox..boundingBox
         \/ characters[1].matrixWorld - characters[i].matrixWorld - WorldSize
                \in -boundingBox..boundingBox}

\* C17 - death is a timed detour: under fair ticking every non-player
\* character that is in death is eventually in walk, with no step other
\* than frames of the loop.
DeathIsDetour ==
    \A i \in 2..3 :
        (characters[i].kind = "npc" /\ characters[i].action = "death")
            ~> (characters[i].kind = "npc" /\ characters[i].action = "walk")

\* a non-player character struck by the player has played its death clip to
\* the end and walks again
DeathIsDetourWitness ==
    \E i \in DOMAIN characters :
        /\ characters[i].kind = "npc"
        /\ characters[i].boxRed
        /\ characters[i].wireframe
        /\ characters[i].lastAction = "death"
        /\ characters[i].action = "walk"
        /\ characters[i].speed = walkSpeed

\* C18 - collision policy: in a frame whose scan runs (every player update
\* after the first), the characters sent to death by the scan are exactly
\* the NPC-kind characters that are not in death and whose world-space box
\* overlaps the local player's, each once, with one audio notification
\* keyed by its model name each; in a frame whose scan does not run none
\* is. The local player, the proxies and the NPCs in death are never sent.
CollisionPolicy ==
    [][lastCall'.op = "animate" =>
           LET struck == IF updateCount > 0
                         THEN {i \in Overlapping :
                                   /\ characters[i].kind = "npc"
                                   /\ characters[i].action # "death"}
                         ELSE {}
           IN  /\ lastCall'.struck = {characters[i].name : i \in struck}
               /\ SelectSeq(played', LAMBDA key : key # "walk")
                      = KeysOf(characters, struck, 1)
               /\ \A i \in struck :
                      /\ characters'[i].boxRed
                      /\ \/ characters'[i].action = "death"
                         \/ characters'[i].lastAction = "death"
               /\ \A i \in DOMAIN characters \ struck :
                      /\ characters'[i].boxRed = characters[i].boxRed
                      /\ characters'[i].action = "death" => characters[i].action = "death"
                      /\ characters[i].kind # "npc" =>
                             characters'[i].action # "death" \/ characters[i].action = "death"]_world

\* a frame sent the cow next to the idle player to death and played "cow",
\* while the proxy standing on the player and the pug out of reach were left
CollisionPolicyWitness ==
    /\ lastCall.op = "animate"
    /\ lastCall.struck = {<<"cow", 0>>}
    /\ played = <<"cow">>
    /\ characters[1].action = "idle" /\ characters[1].position = 0
    /\ characters[2].action = "death" /\ characters[2].boxRed
    /\ characters[3].action = "idle" /\ ~characters[3].boxRed
    /\ \E i \in DOMAIN characters :
           /\ characters[i].kind = "remote"
           /\ characters[i].position = 0
           /\ characters[i].action = "walk"
           /\ ~characters[i].boxRed

\* C19 - death is entered only through the collision scan: a character in
\* death was in death before the step or was sent there by the scan of this
\* frame; no relayed snapshot puts a proxy in death.
DeathOnlyByCollision ==
    [][\A i \in DOMAIN characters' :
           characters'[i].action = "death" =>
               \/ \E j \in Named(characters, characters'[i].name) :
                      characters[j].action = "death"
               \/ /\ lastCall'.op = "animate"
                  /\ characters'[i].name \in lastCall'.struck]_world

\* C20 - applyRemoteSnapshot for a non-local id leaves exactly one proxy for
\* that id, created with the snapshot's model (the cow when the key is
\* unknown) if there was none, at the snapshot's position and rotation
\* whatever the timestamps; no other step changes a proxy's pose, and no id
\* ever has two proxies.
LastSnapshotWins ==
    [][/\ (lastCall'.op = "applyRemoteSnapshot"
             /\ Some(lastCall'.snapshot.id) # playerId) =>
              LET snapshot == lastCall'.snapshot
                  before == Named(characters, <<"remote", snapshot.id>>)
                  after == Named(characters', <<"remote", snapshot.id>>)
              IN  /\ Cardinality(after) = 1
                  /\ snapshot.id \in remotePlayers'
                  /\ \A i \in after :
                         /\ characters'[i].kind = "remote"
                         /\ characters'[i].position = snapshot.position
                         /\ characters'[i].rotation = snapshot.rotation
                         /\ characters'[i].modelName =
                                IF before # {}
                                THEN characters[CHOOSE j \in before : TRUE].modelName
                                ELSE IF snapshot.model \in ModelNames
                                     THEN snapshot.model ELSE "cow"
       /\ \A id \in RemoteIds :
              /\ Cardinality(Named(characters', <<"remote", id>>)) <= 1
              /\ (~(/\ lastCall'.op = "applyRemoteSnapshot"
                    /\ lastCall'.snapshot.id = id
                    /\ Some(id) # playerId)) =>
                     \A i \in Named(characters', <<"remote", id>>) :
                         \E j \in Named(characters, <<"remote", id>>) :
                             /\ characters'[i].position = characters[j].position
                             /\ characters'[i].rotation = characters[j].rotation]_world

\* a proxy that already stood (built as a cow for an unknown model key) took
\* the pose of a further snapshot, one with the lowest timestamp
LastSnapshotWinsWitness ==
    /\ lastCall.op = "applyRemoteSnapshot"
    /\ lastCall.snapshot.model = "pug"
    /\ lastCall.snapshot.timestamp = 1
    /\ lastCall.snapshot.position = 2
    /\ \E i \in Named(characters, <<"remote", lastCall.snapshot.id>>) :
           /\ characters[i].modelName = "cow"
           /\ characters[i].position = 2
           /\ characters[i].rotation = 1
           /\ characters[i].lastTimestamp = 1

\* C23: removeRemotePlayer(id) takes the proxy of id out of the proxy map and
\* out of the registry and leaves every other character where it was; for an
\* id that has no proxy, a removed one included, it changes nothing.
ProxyForgotten ==
    [][lastCall'.op = "removeRemotePlayer" =>
           LET id == lastCall'.id
               others == {i \in DOMAIN characters : characters[i].name # <<"remote", id>>}
           IN  /\ id \notin remotePlayers'
               /\ Named(characters', <<"remote", id>>) = {}
               /\ remotePlayers' = remotePlayers \ {id}
               /\ Len(characters') = Cardinality(others)
               /\ \A i \in others :
                      \E j \in DOMAIN characters' : characters'[j] = characters[i]
               /\ id \notin remotePlayers =>
                      characters' = characters /\ remotePlayers' = remotePlayers
               /\ playerId' = playerId]_world

\* a proxy was removed while another id's proxy stays
ProxyForgottenWitness ==
    /\ lastCall.op = "removeRemotePlayer"
    /\ calls = 3
    /\ lastCall.id \notin remotePlayers
    /\ remotePlayers # {}
    /\ Len(characters) = 4

\* C29: the position, the rotation and the state label of a proxy change only
\* in the step that applies a snapshot of its identifier.
ProxyDrivenBySnapshots ==
    [][\A i \in DOMAIN characters, j \in DOMAIN characters' :
           (/\ characters[i].kind = "remote"
            /\ characters'[j].name = characters[i].name
            /\ ~(/\ lastCall'.op = "applyRemoteSnapshot"
                 /\ <<"remote", lastCall'.snapshot.id>> = characters[i].name))
           => /\ characters'[j].position = characters[i].position
              /\ characters'[j].rotation = characters[i].rotation
              /\ characters'[j].action = characters[i].action]_world

\* C30: no player-update or player-leave is handed to a connection whose socket
\* is not open when the broadcast runs, and every open peer joined to the room
\* of the connection that sent a state or closed is handed one.
SkipsClosedChannels ==
    /\ \A i \in 1..Len(sent) :
           sent[i].msg.type \in BroadcastTypes =>
               /\ sent[i].to \in DOMAIN readyState
               /\ readyState[sent[i].to] = "OPEN"
    /\ (/\ lastEvent.type = "state"
        /\ clients[lastEvent.conn].joined)
       => \A p \in OpenPeers(clients, readyState,
                             clients[lastEvent.conn].roomId, lastEvent.conn) :
              \E i \in OfType(sent, "player-update") : sent[i].to = p
    /\ (/\ lastEvent.type = "close"
        /\ lastEvent.record.joined)
       => \A p \in OpenPeers(clients, readyState,
                             lastEvent.record.roomId, lastEvent.conn) :
              \E i \in OfType(sent, "player-leave") : sent[i].to = p

\* a state went out to an open peer and past a peer of the room that is
\* closing
SkipsClosedChannelsWitness ==
    /\ lastEvent.type = "state"
    /\ clients[lastEvent.conn].joined
    /\ OfType(sent, "player-update") # {}
    /\ \E c \in DOMAIN clients \ {lastEvent.conn} :
           /\ clients[c].joined
           /\ clients[c].roomId = clients[lastEvent.conn].roomId
           /\ readyState[c] = "CLOSING"
           /\ \A i \in 1..Len(sent) : sent[i].to # c

\* ------------------------------------------------ claims on the sync client
\* the places of a socket's log where a message of the type was sent, where
\* one was delivered, and where the event happened
SentAt(log, type) ==
    {i \in DOMAIN log : log[i].event = "send" /\ log[i].data.type = type}

DeliveredAt(log, type) ==
    {i \in DOMAIN log : log[i].event = "message" /\ log[i].data.type = type}

EventAt(log, event) == {i \in DOMAIN log : log[i].event = event}

\* the snapshots an init or a player-update carries
Carried(payload) ==
    IF payload.type = "init" THEN payload.players ELSE <<payload.player>>

\* C21: a snapshot whose id is the identifier the game has recorded for the
\* local player, listed in an init or carried by a player-update, creates no
\* proxy, leaves a proxy of that id as it was and leaves the local player as
\* it was.
OwnSnapshotIgnored ==
    [][(/\ lastCall'.op = "message"
        /\ lastCall'.payload.type \in {"init", "player-update"})
       => \A k \in DOMAIN Carried(lastCall'.payload) :
              LET id == Carried(lastCall'.payload)[k].id
                  name == <<"remote", id>>
              IN  Some(id) = playerId' =>
                      /\ (id \in remotePlayers') = (id \in remotePlayers)
                      /\ Cardinality(Named(characters', name))
                             = Cardinality(Named(characters, name))
                      /\ \A i \in Named(characters', name) :
                             \E j \in Named(characters, name) :
                                 characters'[i] = characters[j]
                      /\ characters'[1] = characters[1]]_<<world, sync>>

\* an init listed a snapshot of the identifier it assigned, next to a peer's:
\* the peer's proxy exists, none exists for the own identifier
OwnSnapshotIgnoredWitness ==
    /\ lastCall.op = "message"
    /\ lastCall.payload.type = "init"
    /\ \E k \in DOMAIN lastCall.payload.players :
           Some(lastCall.payload.players[k].id) = playerId
    /\ remotePlayers # {}
    /\ playerId # Null
    /\ playerId[1] \notin remotePlayers

\* C24: on every socket a state message is sent only after an init was
\* delivered on that socket, and two state messages sent on one socket are
\* at least the update interval apart in the time update was called with.
SendGating ==
    \A s \in DOMAIN sockets :
        LET log == sockets[s].log
        IN  /\ \A i \in SentAt(log, "state") :
                   \E j \in DeliveredAt(log, "init") : j < i
            /\ \A i, j \in SentAt(log, "state") :
                   i < j => log[j].at - log[i].at >= DEFAULT_UPDATE_INTERVAL_MS

\* two state messages went out on one socket
SendGatingWitness ==
    \E s \in DOMAIN sockets : Cardinality(SentAt(sockets[s].log, "state")) = 2

\* C25: a socket that opened was given join with the configured room right
\* after its open event, before any other message, and only once; a socket
\* that has not opened was given nothing to send.
JoinFirst ==
    \A s \in DOMAIN sockets :
        LET log == sockets[s].log
        IN  /\ \A i \in EventAt(log, "open") :
                   /\ i < Len(log)
                   /\ log[i + 1].event = "send"
                   /\ log[i + 1].data = [type |-> "join", room |-> ROOM_ID]
            /\ \A i \in SentAt(log, "join") : i - 1 \in EventAt(log, "open")
            /\ Cardinality(SentAt(log, "join")) <= 1
            /\ \A i \in EventAt(log, "send") :
                   \E j \in SentAt(log, "join") : j <= i

\* a second socket opened, joined and then sent a state
JoinFirstWitness ==
    /\ Len(sockets) >= 2
    /\ SentAt(sockets[2].log, "join") # {}
    /\ SentAt(sockets[2].log, "state") # {}

\* C26: whenever the socket the client holds closes, every proxy is cleared
\* and a reconnection is scheduled after the backoff delay.
ReconnectsOnLoss ==
    [][(/\ lastCall'.op = "close"
        /\ multiplayer.socket = Some(lastCall'.socket))
       => /\ remotePlayers' = {}
          /\ \A i \in DOMAIN characters' : characters'[i].kind # "remote"
          /\ multiplayer'.reconnectTimer # Null
          /\ \E t \in window'.timers :
                 /\ t.id = multiplayer'.reconnectTimer[1]
                 /\ t.delay = ReconnectDelay]_<<world, sync>>

\* C27: the close of a socket the client disposed of schedules nothing, and
\* the close of the socket the client holds schedules a reconnection even
\* when the client disposed of an earlier socket.
SuppressesOwnCloseOnly ==
    [][lastCall'.op = "close" =>
           IF multiplayer.socket = Some(lastCall'.socket)
           THEN (\E d \in DOMAIN sockets : ~sockets[d].listeners)
                    => multiplayer'.reconnectTimer # Null
           ELSE /\ window'.timers = window.timers
                /\ multiplayer'.reconnectTimer = multiplayer.reconnectTimer]_<<world, sync>>

\* the client holds no socket and no timeout is pending
Quiet == multiplayer.socket = Null /\ window.timers = {}

\* C28: at most one timeout is pending; dispose, connect and a socket's open
\* leave none pending; dispose leaves the client without socket and timeout,
\* and from there no socket is constructed until connect is called.
OneReconnectTimer ==
    [][/\ Cardinality(window'.timers) <= 1
       /\ lastCall'.op \in {"dispose", "connect", "open"} =>
              window'.timers = {} /\ multiplayer'.reconnectTimer = Null
       /\ lastCall'.op = "dispose" => Quiet'
       /\ (Quiet /\ lastCall'.op # "connect") =>
              Quiet' /\ Len(sockets') = Len(sockets)]_<<world, sync>>

\* dispose cancelled the timeout a lost connection had scheduled
OneReconnectTimerWitness ==
    /\ lastCall.op = "dispose"
    /\ window.nextTimer = 2
    /\ window.timers = {}
    /\ Len(sockets) = 1

\* C22: the hub changes no field of a relayed snapshot but id, and the proxy
\* the second client has after applying it stands where the first client's
\* player stood when the snapshot was built, turned as it was and in its state.
RoundTrip ==
    [][/\ lastCall'.op = "relay" =>
              LET before == parse(wire[1].data)
                  after == parse(wire'[1].data)
              IN  /\ after = [before EXCEPT !.id = after.id]
                  /\ after.id = lastCall'.id
       /\ lastCall'.op = "apply" =>
              LET name == <<"remote", lastCall'.snapshot.id>>
                  origin == wire[1].origin
              IN  /\ Cardinality(Named(peer'.characters, name)) = 1
                  /\ \A i \in Named(peer'.characters, name) :
                         /\ peer'.characters[i].position = origin.position
                         /\ peer'.characters[i].rotation = origin.rotation
                         /\ peer'.characters[i].action = origin.action]_<<world, trip>>

\* the proxy of a player that turned and walked
RoundTripWitness ==
    /\ lastCall.op = "apply"
    /\ \E i \in DOMAIN peer.characters :
           /\ peer.characters[i].kind = "remote"
           /\ peer.characters[i].action = "walk"
           /\ peer.characters[i].rotation = 1
           /\ peer.characters[i].position # 0

\* C38 - a rejected transition (a state the model has no clip for) leaves
\* the pair (action, lastAction) as it was before the changeState call.
RejectionKeepsPair ==
    [][(/\ lastCall'.op = "changeState"
        /\ ~sameState(characters[1], lastCall'.state, lastCall'.options)
        /\ lastCall'.state \notin animations(characters[1].modelName)) =>
           /\ characters'[1].action = characters[1].action
           /\ characters'[1].lastAction = characters[1].lastAction]_world

\* C31 - the collision scan is not evaluated in the first Player.update
\* after a world is constructed, a second world of the same process included:
\* the first frame after a construction sends no character to death.
FirstTickSkipsScan ==
    [][(lastCall.op \in {"none", "start"} /\ lastCall'.op = "animate") =>
           /\ lastCall'.struck = {}
           /\ \A i \in DOMAIN characters :
                  characters'[i].action = "death" => characters[i].action = "death"]_world

\* the proxy of the remote player of a snapshot, in a registry
ProxyOf(chs, snapshot) ==
    chs[CHOOSE i \in DOMAIN chs : chs[i].name = <<"remote", snapshot.id>>]

\* C32 - reconciliation forces the transition exactly when the snapshot's
\* label is the proxy's current label: a snapshot repeating the label
\* restarts the clip and leaves the proxy with this snapshot's time scale and
\* with the base walk speed times this snapshot's factor; a snapshot with
\* another label is an ordinary, unforced transition from the current label.
ForcedOnSameLabel ==
    [][(/\ lastCall'.op = "applyRemoteSnapshot"
        /\ lastCall'.snapshot.id \in remotePlayers
        /\ ~isLocal(playerId, lastCall'.snapshot)
        /\ lastCall'.snapshot.state \in animations("cow")) =>
           LET snapshot == lastCall'.snapshot
               before == ProxyOf(characters, snapshot)
               after == ProxyOf(characters', snapshot)
           IN  /\ after.action = snapshot.state
               /\ after.lastAction = before.action
               /\ after.clip = snapshot.state
               /\ after.time = 0
               /\ after.timeScale = snapshot.timeScale
               /\ after.speed = IF snapshot.state = "walk"
                                THEN walkSpeed * snapshot.walkSpeed
                                ELSE 0]_world

\* a walking proxy was sent a second walk snapshot, with the factor -1 and
\* the time scale 1: it walks backwards with its clip played forwards
ForcedOnSameLabelWitness ==
    /\ lastCall.op = "applyRemoteSnapshot"
    /\ lastCall.snapshot.state = "walk"
    /\ lastCall.snapshot.walkSpeed = -1
    /\ lastCall.snapshot.timeScale = 1
    /\ \E i \in DOMAIN characters :
           /\ characters[i].name = <<"remote", lastCall.snapshot.id>>
           /\ characters[i].action = "walk"
           /\ characters[i].lastAction = "walk"
           /\ characters[i].speed = -walkSpeed
           /\ characters[i].timeScale = 1

\* C40 - animation progress under sustained input: a frame in which the
\* local player keeps walking in the same direction advances its walk clip
\* from where the frame before left it, and a walk snapshot applied to a
\* proxy that is walking leaves its clip time where it was.
WalkClipAccumulates ==
    [][/\ (/\ lastCall'.op = "animate"
           /\ characters[1].action = "walk"
           /\ characters'[1].action = "walk"
           /\ characters'[1].timeScale = characters[1].timeScale) =>
              characters'[1].time =
                  (characters[1].time + lastCall'.deltaTime * characters[1].timeScale)
                      % ClipDuration
       /\ (/\ lastCall'.op = "applyRemoteSnapshot"
           /\ lastCall'.snapshot.id \in remotePlayers
           /\ ~isLocal(playerId, lastCall'.snapshot)
           /\ lastCall'.snapshot.state = "walk"
           /\ ProxyOf(characters, lastCall'.snapshot).action = "walk") =>
              ProxyOf(characters', lastCall'.snapshot).time
                  = ProxyOf(characters, lastCall'.snapshot).time]_world

\* the socket the client holds had an init, and the last one named a room
\* other than the configured one
UnderServerRoom ==
    /\ multiplayer.socket # Null
    /\ LET log == sockets[multiplayer.socket[1]].log
           inits == DeliveredAt(log, "init")
       IN  /\ inits # {}
           /\ \A i \in inits : (\A j \in inits : j <= i) => log[i].data.roomId # ROOM_ID

\* C33 - an init naming a room other than the configured one is taken like
\* any init: the socket stays held and open and nothing is scheduled, the
\* identifier is recorded by the client and the game, every listed snapshot
\* of another identifier has its proxy at the listed pose, and the next
\* update that passes the gating sends a state under that identifier on the
\* same socket, unless its send throws.
ContinuesUnderServerRoom ==
    [][/\ (/\ lastCall'.op = "message"
           /\ lastCall'.payload.type = "init"
           /\ lastCall'.payload.roomId # ROOM_ID) =>
              LET payload == lastCall'.payload
              IN  /\ multiplayer'.socket = multiplayer.socket
                  /\ sockets'[lastCall'.socket].readyState = "OPEN"
                  /\ window'.timers = window.timers
                  /\ multiplayer'.socket = Some(lastCall'.socket) =>
                         multiplayer'.playerId = Some(payload.id)
                  /\ playerId' = Some(payload.id)
                  /\ \A k \in DOMAIN payload.players :
                         payload.players[k].id # payload.id =>
                             /\ payload.players[k].id \in remotePlayers'
                             /\ \E i \in DOMAIN characters' :
                                    /\ characters'[i].name
                                           = <<"remote", payload.players[k].id>>
                                    /\ characters'[i].position = payload.players[k].position
                                    /\ characters'[i].action = payload.players[k].state
       /\ (/\ lastCall'.op = "update"
           /\ ~lastCall'.threw
           /\ UnderServerRoom
           /\ multiplayer.playerId # Null
           /\ sockets[multiplayer.socket[1]].readyState = "OPEN"
           /\ ~throttled(multiplayer.lastSentAt, lastCall'.now)) =>
              LET s == multiplayer.socket[1]
              IN  /\ multiplayer'.socket = Some(s)
                  /\ Len(sockets'[s].log) = Len(sockets[s].log) + 1
                  /\ sockets'[s].log[Len(sockets'[s].log)].event = "send"
                  /\ sockets'[s].log[Len(sockets'[s].log)].data.type = "state"
                  /\ sockets'[s].log[Len(sockets'[s].log)].data.player.id
                         = multiplayer.playerId[1]]_<<world, sync>>

\* the held socket delivered an init for another room that listed a peer,
\* whose proxy stands, and then took a state message
ContinuesUnderServerRoomWitness ==
    /\ UnderServerRoom
    /\ remotePlayers # {}
    /\ lastCall.op = "update"
    /\ LET log == sockets[multiplayer.socket[1]].log
       IN  /\ log[Len(log)].event = "send"
           /\ log[Len(log)].data.type = "state"
           /\ \E i \in DeliveredAt(log, "init") : log[i].data.players # <<>>

\* C34 - a state send that throws leaves the client as it was, the time of
\* the last send included: the socket stays held and open and nothing is
\* scheduled; the message that failed is never sent later, and the next
\* update that passes the gating sends a snapshot built at its own time.
FailedSendNotRetried ==
    [][/\ (lastCall'.op = "update" /\ lastCall'.threw) =>
              /\ multiplayer' = multiplayer
              /\ window'.timers = window.timers
              /\ sockets'[multiplayer.socket[1]].readyState = "OPEN"
              /\ <<characters', remotePlayers', playerId'>>
                     = <<characters, remotePlayers, playerId>>
       /\ \A s \in DOMAIN sockets' :
              \A i \in EventAt(sockets'[s].log, "throw"), j \in SentAt(sockets'[s].log, "state") :
                  sockets'[s].log[j].data # sockets'[s].log[i].data
       /\ (/\ lastCall'.op = "update"
           /\ ~lastCall'.threw
           /\ multiplayer.socket # Null
           /\ sockets[multiplayer.socket[1]].readyState = "OPEN"
           /\ multiplayer.playerId # Null
           /\ lastCall'.now - multiplayer.lastSentAt >= DEFAULT_UPDATE_INTERVAL_MS) =>
              LET s == multiplayer.socket[1]
              IN  /\ sockets'[s].log =
                         Append(sockets[s].log,
                                [event |-> "send",
                                 data |-> [type |-> "state",
                                           player |-> buildSnapshot(theGame,
                                                          multiplayer.playerId[1],
                                                          lastCall'.now)],
                                 at |-> lastCall'.now])
                  /\ multiplayer'.lastSentAt = lastCall'.now]_<<world, sync>>

\* a state send threw and the update of the next frame, one frame later and
\* less than the update interval after it, sent a snapshot of its own time
FailedSendNotRetriedWitness ==
    /\ multiplayer.socket # Null
    /\ LET log == sockets[multiplayer.socket[1]].log
       IN  /\ Len(log) >= 2
           /\ log[Len(log) - 1].event = "throw"
           /\ log[Len(log)].event = "send"
           /\ log[Len(log)].data.type = "state"
           /\ log[Len(log)].at - log[Len(log) - 1].at < DEFAULT_UPDATE_INTERVAL_MS
           /\ log[Len(log)].data.player.timestamp = window.now

\* C37 - the hub's registry: a record holds a snapshot only if it is joined;
\* a record starts without snapshot and not joined; every step that changes
\* a record's room leaves it without snapshot, and every step that stores a
\* snapshot is a state message of that connection which leaves its room as
\* it was. So a snapshot held was stored after the last change of room.
RegistryInvariant ==
    /\ [](\A x \in DOMAIN clients : clients[x].snapshot # Null => clients[x].joined)
    /\ [][\A x \in DOMAIN clients' :
              IF x \notin DOMAIN clients
              THEN clients'[x].snapshot = Null /\ ~clients'[x].joined
              ELSE /\ clients'[x].roomId # clients[x].roomId =>
                          clients'[x].snapshot = Null
                   /\ (/\ clients'[x].snapshot # Null
                       /\ clients'[x].snapshot # clients[x].snapshot) =>
                          /\ clients'[x].roomId = clients[x].roomId
                          /\ lastEvent'.type = "state"
                          /\ lastEvent'.conn = x]_vars

\* a connection that held a snapshot in one room has joined another room,
\* sent a state there and joined a third time without changing room: it
\* holds the snapshot of the second room
RegistryInvariantWitness ==
    /\ lastEvent.type = "join"
    /\ clients[lastEvent.conn].snapshot # Null
    /\ clients[lastEvent.conn].roomId # DEFAULT_ROOM
    /\ clients[lastEvent.conn].snapshot[1].timestamp = 2
    /\ events >= 6

\* the client holds an open socket on which it sent join and had its init
Established ==
    /\ multiplayer.socket # Null
    /\ multiplayer.playerId # Null
    /\ LET s == multiplayer.socket[1]
       IN  /\ sockets[s].readyState = "OPEN"
           /\ SentAt(sockets[s].log, "join") # {}
           /\ DeliveredAt(sockets[s].log, "init") # {}

NoProxyOfSelf ==
    \A id \in remotePlayers : \A s \in DOMAIN wire.link : wire.link[s] # id

\* the client has had the init of the connection it holds, no message of the
\* hub waits for it, and the hub has been told of the close of every
\* connection the client has lost
Quiescent ==
    /\ multiplayer.socket # Null
    /\ multiplayer.playerId # Null
    /\ wire.toClient = <<>>
    /\ \A s \in DOMAIN sockets :
           sockets[s].readyState = "CLOSED" => wire.link[s] \notin DOMAIN clients

\* C35 - eventual view consistency: when the client is quiescent, the
\* identifiers it holds proxies for are those of the other connections that
\* are joined, hold a snapshot and are recorded in the client's room at the
\* hub, whatever the other connections have done.
ViewConsistency ==
    Quiescent =>
        LET mine == held(multiplayer, wire.link)
        IN  /\ remotePlayers =
                   {id \in DOMAIN clients \ {mine} :
                        /\ clients[id].joined
                        /\ clients[id].snapshot # Null
                        /\ clients[id].roomId = clients[mine].roomId}
            /\ {characters[i].name : i \in {j \in DOMAIN characters :
                                                 characters[j].kind = "remote"}}
                   = {<<"remote", id>> : id \in remotePlayers}

\* the client had a proxy of a peer of its room; the peer moved to another
\* room and the client has handled the player-leave
ViewConsistencyWitness ==
    /\ Quiescent
    /\ lastCall.op = "message"
    /\ lastCall.payload.type = "player-leave"
    /\ remotePlayers = {}
    /\ \E id \in Others : clients[id].joined /\ clients[id].roomId = DEFAULT_ROOM

====
